---- MODULE Spec2Model ----
(***************************************************************************)
(* A model of the EdgeX maker-order trading bot (src/runbot.py): the       *)
(* inventory risk manager, the order lifecycle controller, the order       *)
(* update handler, the reconciliation check and the execution loop.        *)
(*                                                                         *)
(* Quantities are counted in lots and prices in half price steps, so that  *)
(* every float of the source is an integer (or a ratio of integers) here.  *)
(***************************************************************************)
EXTENDS Integers, Sequences, FiniteSets, TLC

(***************************************************************************)
(* Bounds of the model.                                                    *)
(***************************************************************************)
\* largest base order quantity (lots) the risk manager is instantiated with
MaxBase == 2

Abs(x) == IF x < 0 THEN -x ELSE x

Min(a, b) == IF a < b THEN a ELSE b

\* largest |net position| the risk manager is asked about: beyond 8 x base
MaxPos == 9 * MaxBase + 1

(***************************************************************************)
(* LowCostInventoryManager: pure functions of the net position.            *)
(***************************************************************************)
\* mutant: the caution layer ends at five times the base quantity
inventory_layers_wide(base_quantity) ==
    [safe      |-> 2 * base_quantity,
     caution   |-> 5 * base_quantity,
     danger    |-> 6 * base_quantity,
     emergency |-> 8 * base_quantity]

\* inventory_layers: safe, caution, danger, emergency
inventory_layers(base_quantity) ==
    [safe      |-> 2 * base_quantity,
     caution   |-> 4 * base_quantity,
     danger    |-> 6 * base_quantity,
     emergency |-> 8 * base_quantity]

\* mutant: the sign of the inventory is not dropped
get_trading_strategy_signed(base_quantity, current_inventory) ==
    LET layers == inventory_layers(base_quantity)
    IN  IF current_inventory < layers.safe THEN "normal"
        ELSE IF current_inventory < layers.caution THEN "reduce_same_side"
        ELSE IF current_inventory < layers.danger THEN "opposite_only"
        ELSE "pause"

\* mutant: a position exactly at a threshold stays in the tier below it
get_trading_strategy_inclusive(base_quantity, current_inventory) ==
    LET layers == inventory_layers(base_quantity)
        abs_inventory == Abs(current_inventory)
    IN  IF abs_inventory <= layers.safe THEN "normal"
        ELSE IF abs_inventory <= layers.caution THEN "reduce_same_side"
        ELSE IF abs_inventory <= layers.danger THEN "opposite_only"
        ELSE "pause"

get_trading_strategy(base_quantity, current_inventory) ==
    LET layers == inventory_layers(base_quantity)
        abs_inventory == Abs(current_inventory)
    IN  IF abs_inventory < layers.safe THEN "normal"
        ELSE IF abs_inventory < layers.caution THEN "reduce_same_side"
        ELSE IF abs_inventory < layers.danger THEN "opposite_only"
        ELSE "pause"

\* mutant: the bias points the way that grows the position
get_inventory_direction_bias_swapped(base_quantity, current_inventory) ==
    IF current_inventory > base_quantity * 2 THEN "buy"
    ELSE IF current_inventory < -(base_quantity * 2) THEN "sell"
    ELSE "none"

get_inventory_direction_bias(base_quantity, current_inventory) ==
    IF current_inventory > base_quantity * 2 THEN "sell"
    ELSE IF current_inventory < -(base_quantity * 2) THEN "buy"
    ELSE "none"

\* mutant: the whole position in one batch
get_hedge_batch_size_whole(base_quantity, current_inventory) == Abs(current_inventory)

should_emergency_hedge(base_quantity, current_inventory) ==
    Abs(current_inventory) > inventory_layers(base_quantity).emergency

get_hedge_batch_size(base_quantity, current_inventory) ==
    Min(base_quantity * 3, Abs(current_inventory))

\* the risk tier of a position: the emergency test is made first (run loop),
\* the four trading strategies after it
classify(base_quantity, current_inventory) ==
    IF should_emergency_hedge(base_quantity, current_inventory)
    THEN "emergency"
    ELSE get_trading_strategy(base_quantity, current_inventory)

\* signed net position after a fill: long is positive, short is negative
position_after_fill(pos, side, size) ==
    IF side = "buy" THEN pos + size ELSE pos - size

Severity(tier) ==
    CASE tier = "normal" -> 0
      [] tier = "reduce_same_side" -> 1
      [] tier = "opposite_only" -> 2
      [] tier = "pause" -> 3
      [] tier = "emergency" -> 4

(***************************************************************************)
(* Configuration of the run (TradingConfig and the contract's entry of     *)
(* app_config) and the bounds of the execution model.                      *)
(***************************************************************************)
\* config.quantity: the base order quantity, in lots
Qty == 2

\* config.take_profit_percentage as the fraction TakeProfitNum / TakeProfitDen
TakeProfitNum == 1

TakeProfitDen == 10

\* config.max_orders
max_orders == 2

\* config.wait_time, in seconds
wait_time == 4

\* number of order slots of the exchange model: orders accepted in one run
NumSlots == 2

\* API failures and maker rejections of one run
MaxFaults == 1

MaxRejects == 1

\* contract_config step_size and price_delta (defaults), in half steps
StepSize == 2

PriceDelta == 2

\* max_retries of place_open_order and place_close_order
MaxRetries == 15

\* one-second slices of the wait after an unsafe volatility verdict
VolSlices == 30

Sides == {"buy", "sell"}

\* str.upper() and str.lower() on the side strings of config and exchange
Upper(s) ==
    IF s = "buy" THEN "BUY" ELSE IF s = "sell" THEN "SELL" ELSE s

Lower(s) ==
    IF s = "BUY" THEN "buy" ELSE IF s = "SELL" THEN "sell" ELSE s

\* TradingConfig.close_order_side
close_order_side(dir) == IF dir = "sell" THEN "buy" ELSE "sell"

\* Python round(): n / d rounded to the nearest integer, ties to even
RoundHalfEven(n, d) ==
    LET q == n \div d
        r == n % d
    IN  IF 2 * r < d THEN q
        ELSE IF 2 * r > d THEN q + 1
        ELSE IF q % 2 = 0 THEN q ELSE q + 1

\* round_price_to_step of the price num / den
round_price_to_step(num, den, step_size) ==
    RoundHalfEven(num, den * step_size) * step_size

\* the order book get_order_book_depth returns: best quote first
Books ==
    { [bids |-> <<100, 98, 96>>, asks |-> <<102, 104, 106>>] }

NoOrder ==
    [kind |-> "none", side |-> "none", size |-> 0, cum |-> 0,
     status |-> "NONE", price |-> 0, post_only |-> FALSE]

\* account states the bot may be started on: net position and, when there
\* is one, the resting order left by an earlier run that closes it
InitAccounts ==
    { [pos |-> 0, legacy |-> FALSE],
      [pos |-> -Qty, legacy |-> TRUE],
      [pos |-> 2 * Qty, legacy |-> FALSE],
      [pos |-> 2 * Qty + 1, legacy |-> TRUE],
      [pos |-> 2 * Qty + 1, legacy |-> FALSE],
      [pos |-> -(4 * Qty), legacy |-> TRUE],
      [pos |-> 8 * Qty + 1, legacy |-> TRUE] }

LegacyOrder(pos) ==
    [kind |-> "legacy", side |-> IF pos > 0 THEN "SELL" ELSE "BUY",
     size |-> Abs(pos), cum |-> 0, status |-> "OPEN",
     price |-> IF pos > 0 THEN 110 ELSE 90, post_only |-> TRUE]

VARIABLES
    risk,                \* SpecRisk, SpecHedgePrice: the function's input and results
    direction,           \* config.direction
    env,                 \* what the exchange may still do in this run
    orders,              \* exchange: order id -> order
    position,            \* exchange: signed net position of the contract
    events,              \* exchange: FILLED order updates not yet delivered
    pc,                  \* position of the run() task
    shutdown_requested,
    order_filled_event,
    active_close_orders, \* its length (only len() of the list is ever read)
    last_close_orders,
    last_log_time,       \* 0, or 1 once a status tick has completed
    last_open_order_time, \* 0, or 1 once an open order has been placed
    run,                 \* locals of run()
    tick,                \* locals of _log_status_periodically
    pm,                  \* locals of _place_and_monitor_open_order
    po,                  \* locals of place_open/close/hedge_order
    closing,             \* cancel_order calls made, and what the exit paths did
    feed                 \* SpecFeed, SpecGate: btc_price_history and what uses it

exchVars == <<orders, position, events>>

botVars == <<pc, shutdown_requested, order_filled_event, active_close_orders,
             last_close_orders, last_log_time, last_open_order_time,
             run, tick, pm, po, closing>>

mainVars == <<direction, env, orders, position, events, pc, shutdown_requested,
              order_filled_event, active_close_orders, last_close_orders,
              last_log_time, last_open_order_time, run, tick, pm, po,
              closing, feed>>

vars == <<risk, direction, env, orders, position, events, pc, shutdown_requested,
          order_filled_event, active_close_orders, last_close_orders,
          last_log_time, last_open_order_time, run, tick, pm, po, closing,
          feed>>

RunIdle ==
    [current_inventory |-> 0, inventory_strategy |-> "none", i |-> 0,
     trade_direction |-> "none", hedged |-> FALSE]

TickIdle ==
    [active_net_exposure |-> 0, position_amt |-> 0, current_inventory |-> 0,
     verdict |-> "none"]

PmIdle ==
    [order_id |-> 0, status |-> "none", branch |-> "none",
     cancel_result |-> "none", reread |-> FALSE, filled_amount |-> 0,
     close_side |-> "none", close_num |-> 0, close_qty |-> 0]

PoIdle ==
    [retry_count |-> 0, submits |-> 0, rejected |-> 0, faults |-> 0,
     side |-> "none", quantity |-> 0, order_price |-> 0, order_id |-> 0,
     result |-> "none", err_msg |-> "none", status |-> "none"]

\* nothing cancelled, no exception raised, nothing closed
ClosingIdle ==
    [cancel_requested |-> {}, raised |-> "none", client_close |-> 0,
     ws_disconnect |-> 0, close_failed |-> FALSE]

RiskIdle ==
    [step |-> "idle", base |-> 1, p |-> 0, q |-> 0, tier_p |-> "none",
     tier_q |-> "none", bias |-> "none", after |-> 0]

\* btc_price_history = [] and no ticker subscription yet
FeedIdle == [step |-> "idle"]

\* the state after __init__, on an account in one of the start states
Init ==
    /\ risk = RiskIdle
    /\ feed = FeedIdle
    /\ direction \in Sides
    /\ env = [faults |-> MaxFaults, rejects |-> MaxRejects]
    /\ \E a \in InitAccounts :
          /\ position = a.pos
          /\ orders = [i \in 1..NumSlots |->
                          IF i = 1 /\ a.legacy
                          THEN LegacyOrder(a.pos) ELSE NoOrder]
    /\ events = {}
    /\ pc = "loop_top"
    /\ shutdown_requested = FALSE
    /\ order_filled_event = FALSE
    /\ active_close_orders = 0
    /\ last_close_orders = 0
    /\ last_log_time = 0
    /\ last_open_order_time = 0
    /\ run = RunIdle
    /\ tick = TickIdle
    /\ pm = PmIdle
    /\ po = PoIdle
    /\ closing = ClosingIdle

\* run() not started
BotIdle ==
    /\ direction = "buy"
    /\ env = [faults |-> 0, rejects |-> 0]
    /\ orders = [i \in 1..NumSlots |-> NoOrder]
    /\ position = 0
    /\ events = {}
    /\ pc = "idle"
    /\ shutdown_requested = FALSE
    /\ order_filled_event = FALSE
    /\ active_close_orders = 0
    /\ last_close_orders = 0
    /\ last_log_time = 0
    /\ last_open_order_time = 0
    /\ run = RunIdle
    /\ tick = TickIdle
    /\ pm = PmIdle
    /\ po = PoIdle
    /\ closing = ClosingIdle

MainIdle == feed = FeedIdle /\ BotIdle
(***************************************************************************)
(* The exchange: order processing, fills and the order-update feed.        *)
(***************************************************************************)
ActiveStatuses == {"PENDING", "OPEN", "PARTIALLY_FILLED"}

\* a call of the exchange API answers, or fails while the run has failures
\* left (an exception, or an answer without data)
Succeeds == env' = env

Fails ==
    /\ env.faults > 0
    /\ env' = [env EXCEPT !.faults = env.faults - 1]

Api(ok) == IF ok THEN Succeeds ELSE Fails

\* create_limit_order is refused: a failure as any other, and the only
\* answer once the exchange has taken as many orders as it holds
OrderIds == DOMAIN orders

Refused ==
    IF \A i \in OrderIds : orders[i].status # "NONE"
    THEN Succeeds ELSE Fails

FreeIds == {i \in OrderIds : orders[i].status = "NONE"}

NewId == CHOOSE i \in FreeIds : \A j \in FreeIds : i <= j

NewOrder(kind, side, size, price) ==
    [kind |-> kind, side |-> side, size |-> size, cum |-> 0,
     status |-> "PENDING", price |-> price, post_only |-> TRUE]

\* a post-only order that does not cross rests on the book
ExchAccept ==
    \E id \in OrderIds :
        /\ orders[id].status = "PENDING"
        /\ orders' = [orders EXCEPT ![id].status = "OPEN"]
        /\ UNCHANGED <<risk, feed, direction, env, position, events, botVars>>

\* a post-only order that would cross is canceled by the exchange
ExchReject ==
    \E id \in OrderIds :
        /\ orders[id].status = "PENDING"
        /\ env.rejects > 0
        /\ env' = [env EXCEPT !.rejects = env.rejects - 1]
        /\ orders' = [orders EXCEPT ![id].status = "CANCELED"]
        /\ UNCHANGED <<risk, feed, direction, position, events, botVars>>

\* the amounts a resting order may be filled by next: one lot of a still
\* unfilled order, or all that remains
FillAmounts(o) ==
    {o.size - o.cum} \cup (IF o.cum = 0 /\ o.size > 1 THEN {1} ELSE {})

ExchFill ==
    \E id \in OrderIds :
        /\ orders[id].status \in {"OPEN", "PARTIALLY_FILLED"}
        /\ \E amt \in FillAmounts(orders[id]) :
             LET o == orders[id]
                 done == o.cum + amt = o.size
             IN  /\ orders' = [orders EXCEPT
                        ![id].cum = o.cum + amt,
                        ![id].status = IF done THEN "FILLED"
                                       ELSE "PARTIALLY_FILLED"]
                 /\ position' = position_after_fill(position, Lower(o.side), amt)
                 /\ events' = IF done
                              THEN events \cup {[contractId |-> "own", id |-> id,
                                                 side |-> o.side,
                                                 status |-> "FILLED"]}
                              ELSE events
        /\ UNCHANGED <<risk, feed, direction, env, botVars>>

(***************************************************************************)
(* order_update_handler: the callback of the private feed.                 *)
(***************************************************************************)
\* mutant: every order counts as an open order
order_type_always_open(side, dir) == "OPEN"

\* an order on the configured close side is a CLOSE order, any other an OPEN
order_type(side, dir) ==
    IF side = Upper(close_order_side(dir)) THEN "CLOSE" ELSE "OPEN"

\* whether the handler sets order_filled_event for this message
handler_sets_event(msg, dir) ==
    /\ msg.contractId = "own"
    /\ msg.status = "FILLED"
    /\ order_type(msg.side, dir) = "OPEN"

\* updates the feed delivers besides the FILLED ones in flight: updates of
\* another contract, and updates of an order that is not FILLED
OtherMessages ==
    {[contractId |-> "other", id |-> 1, side |-> "BUY", status |-> "FILLED"]}
    \cup {[contractId |-> "own", id |-> id, side |-> orders[id].side,
           status |-> orders[id].status] :
            id \in {i \in OrderIds : orders[i].status \in {"OPEN", "CANCELED"}}}

order_update_handler ==
    \E msg \in events \cup OtherMessages :
        /\ events' = events \ {msg}
        /\ order_filled_event' =
              (order_filled_event \/ handler_sets_event(msg, direction))
        /\ UNCHANGED <<risk, feed, direction, closing, env, orders, position, pc,
                       shutdown_requested, active_close_orders,
                       last_close_orders, last_log_time,
                       last_open_order_time, run, tick, pm, po>>

(***************************************************************************)
(* Reads of the exchange made by the run task.                             *)
(***************************************************************************)
\* get_active_orders followed by the loop that sums them: the number of
\* active orders and the buy and sell amounts; an API error gives []
ActiveIds == {i \in OrderIds : orders[i].status \in ActiveStatuses}

RECURSIVE SumSizes(_, _, _)
SumSizes(ids, side, acc) ==
    IF ids = {} THEN acc
    ELSE LET i == CHOOSE x \in ids : TRUE
         IN  SumSizes(ids \ {i}, side,
                      IF Upper(orders[i].side) = side
                      THEN acc + orders[i].size ELSE acc)

active_orders_summary(ok) ==
    LET ids == IF ok THEN ActiveIds ELSE {}
    IN  [n |-> Cardinality(ids),
         active_buy_amount |-> SumSizes(ids, "BUY", 0),
         active_sell_amount |-> SumSizes(ids, "SELL", 0)]

\* get_current_inventory: the signed position, 0.0 when the read fails
get_current_inventory(ok) == IF ok THEN position ELSE 0

(***************************************************************************)
(* run(): the execution loop up to the choice of the trade direction.      *)
(***************************************************************************)
\* while not self.shutdown_requested: get_active_orders and count them
LoopTop ==
    /\ pc = "loop_top"
    /\ IF shutdown_requested
       THEN /\ pc' = "finally"
            /\ UNCHANGED <<active_close_orders, env>>
       ELSE \E ok \in BOOLEAN :
               /\ Api(ok)
               /\ active_close_orders' = active_orders_summary(ok).n
               /\ pc' = "emergency"
    /\ UNCHANGED <<risk, feed, direction, closing, exchVars, shutdown_requested,
                   order_filled_event, last_close_orders, last_log_time,
                   last_open_order_time, run, tick, pm, po>>

\* emergency_inventory_management: read the inventory, decide on a hedge
EmergencyCheck ==
    /\ pc = "emergency"
    /\ \E ok \in BOOLEAN :
         LET current_inventory == get_current_inventory(ok)
         IN  /\ Api(ok)
             /\ IF ~should_emergency_hedge(Qty, current_inventory)
                THEN /\ pc' = "status"
                     /\ po' = po
                ELSE /\ pc' = "hedge_book"
                     /\ po' = [PoIdle EXCEPT
                           !.side = IF current_inventory > 0 THEN "sell"
                                    ELSE "buy",
                           !.quantity =
                               get_hedge_batch_size(Qty, current_inventory)]
    /\ UNCHANGED <<risk, feed, direction, closing, exchVars, shutdown_requested,
                   order_filled_event, active_close_orders, last_close_orders,
                   last_log_time, last_open_order_time, run, tick, pm>>

\* the price place_hedge_order derives from the book
hedge_price(book, dir, aggressive) ==
    LET bids == book.bids
        asks == book.asks
        best_bid == bids[1]
        best_ask == asks[1]
        raw == IF dir = "sell"
               THEN IF aggressive
                    THEN IF Len(bids) >= 3 THEN bids[3]
                         ELSE IF Len(bids) >= 2 THEN bids[2]
                         ELSE best_bid - StepSize
                    ELSE best_bid + StepSize
               ELSE IF aggressive
                    THEN IF Len(asks) >= 3 THEN asks[3]
                         ELSE IF Len(asks) >= 2 THEN asks[2]
                         ELSE best_ask + StepSize
                    ELSE best_ask - StepSize
    IN  round_price_to_step(raw, 1, StepSize)

\* place_hedge_order: read the book; a failed or malformed read is an error
HedgeBook ==
    /\ pc = "hedge_book"
    /\ \/ \E book \in Books :
            /\ Succeeds
            /\ po' = [po EXCEPT !.order_price = hedge_price(book, po.side, TRUE)]
            /\ pc' = "hedge_create"
       \/ /\ Fails
          /\ po' = PoIdle
          /\ pc' = "status"
    /\ UNCHANGED <<risk, feed, direction, closing, exchVars, shutdown_requested,
                   order_filled_event, active_close_orders, last_close_orders,
                   last_log_time, last_open_order_time, run, tick, pm>>

\* place_hedge_order: create_limit_order; the status is not read back.
\* run.hedged is the value emergency_inventory_management returns, which
\* run() does not look at
HedgeCreate ==
    /\ pc = "hedge_create"
    /\ \/ /\ FreeIds # {}
          /\ Succeeds
          /\ orders' = [orders EXCEPT ![NewId] =
                NewOrder("hedge", Upper(po.side), po.quantity, po.order_price)]
          /\ run' = [run EXCEPT !.hedged = TRUE]
       \/ /\ Refused
          /\ UNCHANGED <<orders, run>>
    /\ po' = PoIdle
    /\ pc' = "status"
    /\ UNCHANGED <<risk, feed, direction, closing, position, events, shutdown_requested,
                   order_filled_event, active_close_orders, last_close_orders,
                   last_log_time, last_open_order_time, tick, pm>>

(***************************************************************************)
(* _log_status_periodically: the status tick and the reconciliation check. *)
(***************************************************************************)
\* |active_net_exposure - expected_active_exposure|, the expected exposure
\* being minus the inventory
exposure_mismatch(active_net_exposure, current_inventory) ==
    Abs(active_net_exposure - (-current_inventory))

\* mutant: a mismatch of exactly twice the quantity is fatal too
mismatch_is_fatal_inclusive(exposure) == exposure >= 2 * Qty

mismatch_is_fatal(exposure) == exposure > 2 * Qty

\* the tick is due on the first call and when 60 s have passed since the last
\* completed one; when due it fetches and sums the active orders
StatusTick ==
    /\ pc = "status"
    /\ \/ /\ last_log_time # 0
          /\ pc' = "throttle"
          /\ UNCHANGED <<active_close_orders, tick, env>>
       \/ \E ok \in BOOLEAN :
            LET summary == active_orders_summary(ok)
            IN  /\ Api(ok)
                /\ active_close_orders' = summary.n
                /\ tick' = [tick EXCEPT !.active_net_exposure =
                        summary.active_buy_amount - summary.active_sell_amount]
                /\ pc' = "tick_positions"
    /\ UNCHANGED <<risk, feed, direction, closing, exchVars, shutdown_requested,
                   order_filled_event, last_close_orders, last_log_time,
                   last_open_order_time, run, pm, po>>

\* get_account_positions: |openSize| of the contract, 0 when the read fails
TickPositions ==
    /\ pc = "tick_positions"
    /\ \E ok \in BOOLEAN :
          /\ Api(ok)
          /\ tick' = [tick EXCEPT
                 !.position_amt = IF ok THEN Abs(position) ELSE 0]
    /\ pc' = "tick_inventory"
    /\ UNCHANGED <<risk, feed, direction, closing, exchVars, shutdown_requested,
                   order_filled_event, active_close_orders, last_close_orders,
                   last_log_time, last_open_order_time, run, pm, po>>

\* get_current_inventory, then the position-order exposure check
TickInventory ==
    /\ pc = "tick_inventory"
    /\ \E ok \in BOOLEAN :
         LET current_inventory == get_current_inventory(ok)
             fatal == mismatch_is_fatal(
                 exposure_mismatch(tick.active_net_exposure, current_inventory))
         IN  /\ Api(ok)
             /\ tick' = [tick EXCEPT
                    !.current_inventory = current_inventory,
                    !.verdict = IF fatal THEN "fatal" ELSE "ok"]
             /\ shutdown_requested' = (shutdown_requested \/ fatal)
             /\ last_log_time' = IF fatal THEN last_log_time ELSE 1
    /\ pc' = "throttle"
    /\ UNCHANGED <<risk, feed, direction, closing, exchVars, order_filled_event,
                   active_close_orders, last_close_orders,
                   last_open_order_time, run, pm, po>>

(***************************************************************************)
(* _calculate_wait_time: the throttle.                                     *)
(***************************************************************************)
\* seconds since the last open order, as read off the clock
SinceOpen == {0, wait_time, 2 * wait_time + 1}

\* the cool-down, in quarter seconds
cool_down_time(n) ==
    IF 3 * n >= 2 * max_orders THEN 8 * wait_time
    ELSE IF 3 * n >= max_orders THEN 4 * wait_time
    ELSE IF 6 * n >= max_orders THEN 2 * wait_time
    ELSE wait_time

\* the wait (0 or 1) and the new last_close_orders
calculate_wait_time(n, last, since) ==
    IF n < last THEN [wait |-> 0, last |-> n]
    ELSE IF n >= max_orders THEN [wait |-> 1, last |-> n]
    ELSE [wait |-> IF 4 * since > cool_down_time(n) THEN 0 ELSE 1,
          last |-> n]

Throttle ==
    /\ pc = "throttle"
    /\ \E since \in (IF last_open_order_time = 0
                     THEN {2 * wait_time + 1} ELSE SinceOpen) :
         LET r == calculate_wait_time(active_close_orders, last_close_orders,
                                      since)
         IN  /\ last_close_orders' = r.last
             /\ pc' = IF r.wait > 0 THEN "sleep" ELSE "inventory"
    /\ tick' = TickIdle
    /\ UNCHANGED <<risk, feed, direction, closing, env, exchVars, shutdown_requested,
                   order_filled_event, active_close_orders, last_log_time,
                   last_open_order_time, run, pm, po>>

\* asyncio.sleep, then `continue`
Sleep ==
    /\ pc = "sleep"
    /\ pc' = "loop_top"
    /\ run' = RunIdle
    /\ UNCHANGED <<risk, feed, direction, closing, env, exchVars, shutdown_requested,
                   order_filled_event, active_close_orders, last_close_orders,
                   last_log_time, last_open_order_time, tick, pm, po>>

(***************************************************************************)
(* run(): inventory tier, volatility wait and trade direction.             *)
(***************************************************************************)
\* mutant: a paused tier goes on to the volatility check
after_inventory_never_pauses(inventory_strategy) == "vol_check"

\* if inventory_strategy == InventoryStrategy.PAUSE: sleep(30); continue
after_inventory(inventory_strategy) ==
    IF inventory_strategy = "pause" THEN "sleep" ELSE "vol_check"

Inventory ==
    /\ pc = "inventory"
    /\ \E ok \in BOOLEAN :
         LET current_inventory == get_current_inventory(ok)
             inventory_strategy == get_trading_strategy(Qty, current_inventory)
         IN  /\ Api(ok)
             /\ run' = [run EXCEPT
                    !.current_inventory = current_inventory,
                    !.inventory_strategy = inventory_strategy]
             /\ pc' = after_inventory(inventory_strategy)
    /\ UNCHANGED <<risk, feed, direction, closing, exchVars, shutdown_requested,
                   order_filled_event, active_close_orders, last_close_orders,
                   last_log_time, last_open_order_time, tick, pm, po>>

\* while not shutdown_requested: check_btc_volatility_safe(); its verdict
\* is decided by the price feed, the clock and the 24h quote
\* mutant: the gate is polled whatever the flag says
gate_loop_always(requested) == TRUE

\* while not self.shutdown_requested
gate_loop_continues(requested) == ~requested

VolCheck ==
    /\ pc = "vol_check"
    /\ IF ~gate_loop_continues(shutdown_requested)
       THEN /\ pc' = "after_vol"
            /\ run' = [run EXCEPT !.i = 0]
       ELSE \E is_volatility_safe \in BOOLEAN :
               /\ pc' = IF is_volatility_safe THEN "after_vol"
                        ELSE "vol_wait"
               /\ run' = [run EXCEPT !.i = 0]
    /\ UNCHANGED <<risk, feed, direction, closing, env, exchVars, shutdown_requested,
                   order_filled_event, active_close_orders, last_close_orders,
                   last_log_time, last_open_order_time, tick, pm, po>>

\* for i in range(30): if shutdown_requested: break; sleep(1)
\* the number of one-second sleeps made; nothing but the run task itself
\* sets shutdown_requested, so it is the same in every slice
RECURSIVE vol_wait_slept(_, _)
vol_wait_slept(i, requested) ==
    IF i >= VolSlices \/ requested THEN i
    ELSE vol_wait_slept(i + 1, requested)

VolWait ==
    /\ pc = "vol_wait"
    /\ run' = [run EXCEPT !.i = vol_wait_slept(0, shutdown_requested)]
    /\ pc' = "vol_check"
    /\ UNCHANGED <<risk, feed, direction, closing, env, exchVars, shutdown_requested,
                   order_filled_event, active_close_orders, last_close_orders,
                   last_log_time, last_open_order_time, tick, pm, po>>

\* mutant: the loop does not leave on a requested shutdown
break_on_shutdown_never(requested) == FALSE

\* if self.shutdown_requested: break
break_on_shutdown(requested) == requested

\* mutant: the configured direction in every tier
get_trade_direction_configured(current_inventory, inventory_strategy, flip) == direction

\* mutant: the reduce tier never flips to the bias direction
get_trade_direction_never_flips(current_inventory, inventory_strategy, flip) ==
    IF inventory_strategy = "opposite_only"
    THEN get_inventory_direction_bias(Qty, current_inventory)
    ELSE IF inventory_strategy = "pause" THEN "none" ELSE direction

\* _get_trade_direction_with_inventory_control; flip is random() < 0.5
get_trade_direction_with_inventory_control(current_inventory, inventory_strategy, flip) ==
    LET inventory_bias ==
            get_inventory_direction_bias(Qty, current_inventory)
    IN  IF inventory_strategy = "normal" THEN direction
        ELSE IF inventory_strategy = "reduce_same_side"
             THEN IF inventory_bias # "none" /\ flip THEN inventory_bias
                  ELSE direction
        ELSE IF inventory_strategy = "opposite_only" THEN inventory_bias
        ELSE IF inventory_strategy = "pause" THEN "none"
        ELSE direction

ChooseDirection ==
    /\ pc = "after_vol"
    /\ IF break_on_shutdown(shutdown_requested)
       THEN /\ pc' = "finally"
            /\ run' = RunIdle
       ELSE \E flip \in BOOLEAN :
              LET trade_direction ==
                    get_trade_direction_with_inventory_control(
                        run.current_inventory, run.inventory_strategy, flip)
              IN  /\ run' = [run EXCEPT !.trade_direction = trade_direction]
                  /\ pc' = IF trade_direction # "none" THEN "pm_start"
                           ELSE "sleep"
    /\ UNCHANGED <<risk, feed, direction, closing, env, exchVars, shutdown_requested,
                   order_filled_event, active_close_orders, last_close_orders,
                   last_log_time, last_open_order_time, tick, pm, po>>

\* mutant: the two clean-ups share one try block
finally_after_close_one_try(ok) == IF ok THEN "finally_ws" ELSE "done"

\* finally: client.close() has a try block of its own, whose except branch
\* logs and goes on
finally_after_close(ok) == "finally_ws"

\* finally, first try block: close the HTTP client session
Finally ==
    /\ pc = "finally"
    /\ \E ok \in BOOLEAN :
         /\ Api(ok)
         /\ closing' = [closing EXCEPT
                !.client_close = closing.client_close + 1,
                !.close_failed = closing.close_failed \/ ~ok]
         /\ pc' = finally_after_close(ok)
    /\ UNCHANGED <<risk, feed, direction, exchVars, shutdown_requested,
                   order_filled_event, active_close_orders, last_close_orders,
                   last_log_time, last_open_order_time, run, tick, pm, po>>

\* finally, second try block: disconnect the WebSocket connections
FinallyDisconnect ==
    /\ pc = "finally_ws"
    /\ \E ok \in BOOLEAN :
         /\ Api(ok)
         /\ closing' = [closing EXCEPT
                !.ws_disconnect = closing.ws_disconnect + 1]
    /\ pc' = "done"
    /\ UNCHANGED <<risk, feed, direction, exchVars, shutdown_requested,
                   order_filled_event, active_close_orders, last_close_orders,
                   last_log_time, last_open_order_time, run, tick, pm, po>>

(***************************************************************************)
(* place_open_order: maker price from the book, post-only order, status    *)
(* read, retry on a maker rejection.                                       *)
(***************************************************************************)
\* mutant: one retry less
can_retry_short(retry_count) == retry_count < MaxRetries - 2

\* if retry_count < max_retries - 1
can_retry(retry_count) == retry_count < MaxRetries - 1

\* mutant: an open order priced at the opposing quote itself
open_order_price_at_quote(book, dir) ==
    IF dir = "buy" THEN book.asks[1] ELSE book.bids[1]

\* the price of an open order: one price_delta inside the opposing quote
open_order_price(book, dir) ==
    LET best_bid == book.bids[1]
        best_ask == book.asks[1]
    IN  round_price_to_step(IF dir = "buy" THEN best_ask - PriceDelta
                            ELSE best_bid + PriceDelta, 1, StepSize)

\* mutant: an exception is retried without counting as an attempt
RetryAfterException_uncounted(next_pc, return_pc) ==
    /\ Fails
    /\ po' = [po EXCEPT !.faults = po.faults + 1, !.order_id = 0]
    /\ pc' = next_pc

\* the except branch of the retry loops: retry, or give up with the error
RetryAfterException(next_pc, return_pc) ==
    /\ Fails
    /\ IF can_retry(po.retry_count)
       THEN /\ po' = [po EXCEPT !.retry_count = po.retry_count + 1,
                                !.faults = po.faults + 1,
                                !.order_id = 0]
            /\ pc' = next_pc
       ELSE /\ po' = [po EXCEPT !.result = "error", !.err_msg = "exception",
                                !.faults = po.faults + 1]
            /\ pc' = return_pc

\* mutant: an error ends the loop
ReturnError_ends_loop(msg, return_pc) ==
    /\ po' = [po EXCEPT !.result = "error", !.err_msg = msg]
    /\ pc' = "finally"

\* return {'status': 'error', 'err_msg': ...}
ReturnError(msg, return_pc) ==
    /\ po' = [po EXCEPT !.result = "error", !.err_msg = msg]
    /\ pc' = return_pc

\* a return with an error that an answer of the exchange without data causes
FailWith(msg, return_pc) ==
    /\ Fails
    /\ ReturnError(msg, return_pc)

\* _place_and_monitor_open_order: clear the event, call place_open_order
PmStart ==
    /\ pc = "pm_start"
    /\ order_filled_event' = FALSE
    /\ po' = [PoIdle EXCEPT !.side = run.trade_direction, !.quantity = Qty]
    /\ pc' = "open_book"
    /\ UNCHANGED <<risk, feed, direction, closing, env, exchVars, shutdown_requested,
                   active_close_orders, last_close_orders, last_log_time,
                   last_open_order_time, run, tick, pm>>

OpenBook ==
    /\ pc = "open_book"
    /\ IF po.retry_count >= MaxRetries
       THEN /\ ReturnError("max_retries", "pm_placed")
            /\ Succeeds
       ELSE \/ \E book \in Books :
                 /\ po' = [po EXCEPT
                        !.order_price = open_order_price(book, po.side)]
                 /\ pc' = "open_create"
                 /\ Succeeds
            \/ FailWith("book", "pm_placed")
            \/ RetryAfterException("open_book", "pm_placed")
    /\ UNCHANGED <<risk, feed, direction, closing, exchVars, shutdown_requested,
                   order_filled_event, active_close_orders, last_close_orders,
                   last_log_time, last_open_order_time, run, tick, pm>>

OpenCreate ==
    /\ pc = "open_create"
    /\ \/ /\ FreeIds # {}
          /\ orders' = [orders EXCEPT ![NewId] =
                NewOrder("open", Upper(po.side), po.quantity, po.order_price)]
          /\ po' = [po EXCEPT !.order_id = NewId, !.submits = po.submits + 1]
          /\ pc' = "open_status"
          /\ Succeeds
       \/ /\ Refused
          /\ ReturnError("create", "pm_placed")
          /\ UNCHANGED orders
       \/ /\ RetryAfterException("open_book", "pm_placed")
          /\ UNCHANGED orders
    /\ UNCHANGED <<risk, feed, direction, closing, position, events, shutdown_requested,
                   order_filled_event, active_close_orders, last_close_orders,
                   last_log_time, last_open_order_time, run, tick, pm>>

\* the status read after create_limit_order and what the loop makes of it;
\* the slot of an order seen CANCELED is given back
StatusRead(book_pc, return_pc) ==
    \/ /\ Fails
       /\ po' = [po EXCEPT !.result = "ok", !.status = "none"]
       /\ pc' = return_pc
       /\ UNCHANGED orders
    \/ LET status == orders[po.order_id].status
       IN  /\ Succeeds
           /\ IF status = "CANCELED"
              THEN /\ orders' = [orders EXCEPT ![po.order_id] = NoOrder]
                   /\ IF can_retry(po.retry_count)
                      THEN /\ po' = [po EXCEPT
                                 !.retry_count = po.retry_count + 1,
                                 !.rejected = po.rejected + 1,
                                 !.order_id = 0]
                           /\ pc' = book_pc
                      ELSE /\ po' = [po EXCEPT
                                 !.rejected = po.rejected + 1,
                                 !.result = "error", !.err_msg = "rejected",
                                 !.order_id = 0]
                           /\ pc' = return_pc
              ELSE IF status \in {"OPEN", "PARTIALLY_FILLED", "FILLED"}
              THEN /\ po' = [po EXCEPT !.result = "ok", !.status = status]
                   /\ pc' = return_pc
                   /\ UNCHANGED orders
              ELSE /\ ReturnError("status", return_pc)
                   /\ UNCHANGED orders

OpenStatus ==
    /\ pc = "open_status"
    /\ StatusRead("open_book", "pm_placed")
    /\ UNCHANGED <<risk, feed, direction, closing, position, events, shutdown_requested,
                   order_filled_event, active_close_orders, last_close_orders,
                   last_log_time, last_open_order_time, run, tick, pm>>

\* back in _place_and_monitor_open_order with the result of the placement
PmPlaced ==
    /\ pc = "pm_placed"
    /\ IF po.result # "ok"
       THEN /\ pc' = "pm_return"
            /\ UNCHANGED <<pm, last_open_order_time>>
       ELSE /\ last_open_order_time' = 1
            /\ pm' = [pm EXCEPT !.order_id = po.order_id,
                                !.status = po.status]
            /\ pc' = IF po.status # "FILLED" THEN "wait_fill" ELSE "hr_poll"
    /\ po' = PoIdle
    /\ UNCHANGED <<risk, feed, direction, closing, env, exchVars, shutdown_requested,
                   order_filled_event, active_close_orders, last_close_orders,
                   last_log_time, run, tick>>

\* mutant: a timeout places the order again
after_wait_places_again(signalled) ==
    IF signalled THEN "hr_poll" ELSE "pm_start"

\* mutant: a timeout returns without reading the order
after_wait_gives_up(signalled) ==
    IF signalled THEN "hr_poll" ELSE "pm_return"

\* after the wait: TimeoutError is passed over, _handle_order_result is
\* called whether the event was set or not
after_wait(signalled) == "hr_poll"

\* asyncio.wait_for(order_filled_event.wait(), timeout=10)
WaitFill ==
    /\ pc = "wait_fill"
    /\ \/ order_filled_event
       \/ ~order_filled_event
    /\ pc' = after_wait(order_filled_event)
    /\ UNCHANGED <<risk, feed, direction, closing, env, exchVars, shutdown_requested,
                   order_filled_event, active_close_orders, last_close_orders,
                   last_log_time, last_open_order_time, run, tick, pm, po>>

(***************************************************************************)
(* _handle_order_result: take-profit close after a fill, cancel and close  *)
(* of the filled part after a timeout.                                     *)
(***************************************************************************)
\* mutant: side and sign of the close order follow the configured direction
take_profit_order_configured(actual_open_side, filled_price, dir) ==
    LET close_side == close_order_side(dir)
    IN  [side |-> close_side,
         num |-> IF close_side = "sell"
                 THEN filled_price * (TakeProfitDen + TakeProfitNum)
                 ELSE filled_price * (TakeProfitDen - TakeProfitNum)]

\* side of the close order and its price num / TakeProfitDen, which is
\* filled_price * (1 +- take_profit_percentage)
take_profit_order(actual_open_side, filled_price, dir) ==
    IF actual_open_side = "buy"
    THEN [side |-> "sell",
          num |-> filled_price * (TakeProfitDen + TakeProfitNum)]
    ELSE IF actual_open_side = "sell"
    THEN [side |-> "buy",
          num |-> filled_price * (TakeProfitDen - TakeProfitNum)]
    ELSE [side |-> close_order_side(dir),
          num |-> IF close_order_side(dir) = "sell"
                  THEN filled_price * (TakeProfitDen + TakeProfitNum)
                  ELSE filled_price * (TakeProfitDen - TakeProfitNum)]

\* mutant: the close order of a partial fill has the full order quantity
partial_close_quantity_full(filled_amount) == Qty

\* quantity of the close order after a cancel: the filled amount re-read
partial_close_quantity(filled_amount) == filled_amount

\* the call of place_close_order made by _handle_order_result
CallPlaceCloseOrder(branch, quantity, tp, filled_amount) ==
    /\ pm' = [pm EXCEPT !.branch = branch,
                        !.reread = (branch = "partial"),
                        !.filled_amount = filled_amount,
                        !.close_side = tp.side,
                        !.close_num = tp.num,
                        !.close_qty = quantity]
    /\ po' = [PoIdle EXCEPT !.side = tp.side, !.quantity = quantity]
    /\ pc' = "close_book"

\* get_order_info(order_id) and the branch on its status
HrPoll ==
    /\ pc = "hr_poll"
    /\ \/ /\ Fails
          /\ pc' = "pm_return"
          /\ pm' = [pm EXCEPT !.branch = "unknown"]
          /\ po' = po
       \/ LET o == orders[pm.order_id]
          IN  /\ Succeeds
              /\ IF o.status = "FILLED"
                 THEN IF o.price > 0
                      THEN CallPlaceCloseOrder("filled", Qty,
                               take_profit_order(Lower(o.side), o.price,
                                                 direction),
                               0)
                      ELSE /\ pc' = "pm_return"
                           /\ pm' = [pm EXCEPT !.branch = "filled"]
                           /\ po' = po
                 ELSE IF o.status \in {"OPEN", "PARTIALLY_FILLED"}
                 THEN /\ pc' = "hr_cancel"
                      /\ pm' = [pm EXCEPT !.branch = "partial"]
                      /\ po' = po
                 ELSE /\ pc' = "pm_return"
                      /\ pm' = [pm EXCEPT !.branch = "unknown"]
                      /\ po' = po
    /\ UNCHANGED <<risk, feed, direction, closing, exchVars, shutdown_requested,
                   order_filled_event, active_close_orders, last_close_orders,
                   last_log_time, last_open_order_time, run, tick>>

\* cancel_order: the exchange cancels an order that still rests; the
\* request may also fail, and it changes nothing for a filled order
HrCancel ==
    /\ pc = "hr_cancel"
    /\ \/ /\ orders[pm.order_id].status \in {"OPEN", "PARTIALLY_FILLED"}
          /\ Succeeds
          /\ orders' = [orders EXCEPT ![pm.order_id].status = "CANCELED"]
          /\ pm' = [pm EXCEPT !.cancel_result = "ok"]
       \/ /\ orders[pm.order_id].status = "FILLED"
          /\ Succeeds
          /\ pm' = [pm EXCEPT !.cancel_result = "ok"]
          /\ UNCHANGED orders
       \/ /\ Fails
          /\ pm' = [pm EXCEPT !.cancel_result = "error"]
          /\ UNCHANGED orders
    /\ closing' = [closing EXCEPT
           !.cancel_requested = closing.cancel_requested \cup {pm.order_id}]
    /\ pc' = "hr_reread"
    /\ UNCHANGED <<risk, feed, direction, position, events, shutdown_requested,
                   order_filled_event, active_close_orders, last_close_orders,
                   last_log_time, last_open_order_time, run, tick, po>>

\* the second get_order_info: cumFillSize, price and side of the order; an
\* empty answer raises and ends _place_and_monitor_open_order
HrReread ==
    /\ pc = "hr_reread"
    /\ \/ /\ Fails
          /\ pc' = "pm_return"
          /\ UNCHANGED <<pm, po>>
       \/ LET o == orders[pm.order_id]
              filled_amount == o.cum
          IN  /\ Succeeds
              /\ IF filled_amount > 0
                 THEN CallPlaceCloseOrder("partial",
                          partial_close_quantity(filled_amount),
                          take_profit_order(Lower(o.side), o.price, direction),
                          filled_amount)
                 ELSE /\ pc' = "pm_return"
                      /\ pm' = [pm EXCEPT !.reread = TRUE]
                      /\ po' = po
    /\ UNCHANGED <<risk, feed, direction, closing, exchVars, shutdown_requested,
                   order_filled_event, active_close_orders, last_close_orders,
                   last_log_time, last_open_order_time, run, tick>>

(***************************************************************************)
(* place_close_order: the take-profit price, moved inside the book when it *)
(* would cross, post-only order, status read, retry.                       *)
(***************************************************************************)
\* the price num / den adjusted to the book and rounded to the step
close_order_price(book, side, num, den) ==
    LET best_bid == book.bids[1]
        best_ask == book.asks[1]
    IN  IF side = "sell" /\ num <= best_bid * den
        THEN round_price_to_step(best_bid + PriceDelta, 1, StepSize)
        ELSE IF side = "buy" /\ num >= best_ask * den
        THEN round_price_to_step(best_ask - PriceDelta, 1, StepSize)
        ELSE round_price_to_step(num, den, StepSize)

CloseBook ==
    /\ pc = "close_book"
    /\ IF po.retry_count >= MaxRetries
       THEN /\ ReturnError("max_retries", "pm_return")
            /\ Succeeds
       ELSE \/ \E book \in Books :
                 /\ po' = [po EXCEPT !.order_price =
                        close_order_price(book, po.side, pm.close_num,
                                          TakeProfitDen)]
                 /\ pc' = "close_create"
                 /\ Succeeds
            \/ FailWith("book", "pm_return")
            \/ RetryAfterException("close_book", "pm_return")
    /\ UNCHANGED <<risk, feed, direction, closing, exchVars, shutdown_requested,
                   order_filled_event, active_close_orders, last_close_orders,
                   last_log_time, last_open_order_time, run, tick, pm>>

CloseCreate ==
    /\ pc = "close_create"
    /\ \/ /\ FreeIds # {}
          /\ orders' = [orders EXCEPT ![NewId] =
                NewOrder("close", Upper(po.side), po.quantity, po.order_price)]
          /\ po' = [po EXCEPT !.order_id = NewId, !.submits = po.submits + 1]
          /\ pc' = "close_status"
          /\ Succeeds
       \/ /\ Refused
          /\ ReturnError("create", "pm_return")
          /\ UNCHANGED orders
       \/ /\ RetryAfterException("close_book", "pm_return")
          /\ UNCHANGED orders
    /\ UNCHANGED <<risk, feed, direction, closing, position, events, shutdown_requested,
                   order_filled_event, active_close_orders, last_close_orders,
                   last_log_time, last_open_order_time, run, tick, pm>>

CloseStatus ==
    /\ pc = "close_status"
    /\ StatusRead("close_book", "pm_return")
    /\ UNCHANGED <<risk, feed, direction, closing, position, events, shutdown_requested,
                   order_filled_event, active_close_orders, last_close_orders,
                   last_log_time, last_open_order_time, run, tick, pm>>

\* back in run(): self.last_close_orders += 1, next cycle
PmReturn ==
    /\ pc = "pm_return"
    /\ last_close_orders' = last_close_orders + 1
    /\ pc' = "loop_top"
    /\ pm' = PmIdle
    /\ po' = PoIdle
    /\ run' = RunIdle
    /\ UNCHANGED <<risk, feed, direction, closing, env, exchVars, shutdown_requested,
                   order_filled_event, active_close_orders, last_log_time,
                   last_open_order_time, tick>>

(***************************************************************************)
(* Spec: the bot, the exchange and the order-update feed.                  *)
(***************************************************************************)
BotStep ==
    \/ LoopTop \/ EmergencyCheck \/ HedgeBook \/ HedgeCreate
    \/ StatusTick \/ TickPositions \/ TickInventory \/ Throttle \/ Sleep
    \/ Inventory \/ VolCheck \/ VolWait \/ ChooseDirection
    \/ PmStart \/ OpenBook \/ OpenCreate \/ OpenStatus \/ PmPlaced
    \/ WaitFill \/ HrPoll \/ HrCancel \/ HrReread
    \/ CloseBook \/ CloseCreate \/ CloseStatus \/ PmReturn
    \/ Finally \/ FinallyDisconnect

ExchStep == ExchAccept \/ ExchReject \/ ExchFill

Next ==
    \/ BotStep
    \/ ExchStep
    \/ order_update_handler

Spec == Init /\ [][Next]_vars

\* the run task is scheduled as long as it can take a step
FairSpec == Spec /\ WF_vars(BotStep)

(***************************************************************************)
(* SpecExit: the loop with the except branches of run(): an exception or   *)
(* a KeyboardInterrupt raised in the loop, graceful_shutdown, finally.     *)
(***************************************************************************)
LoopPcs ==
    {"loop_top", "emergency", "hedge_book", "hedge_create", "status",
     "tick_positions", "tick_inventory", "throttle", "sleep", "inventory",
     "vol_check", "vol_wait", "after_vol", "pm_start", "open_book",
     "open_create", "open_status", "pm_placed", "wait_fill", "hr_poll",
     "hr_cancel", "hr_reread", "close_book", "close_create", "close_status",
     "pm_return"}

Raised == {"KeyboardInterrupt", "Exception"}

\* an exception leaves the try block of run(): the frames of the calls in
\* progress are dropped and the matching except branch is entered
Interrupt ==
    /\ pc \in LoopPcs
    /\ \E raised \in Raised :
         closing' = [closing EXCEPT !.raised = raised]
    /\ pc' = "graceful"
    /\ run' = RunIdle
    /\ tick' = TickIdle
    /\ pm' = PmIdle
    /\ po' = PoIdle
    /\ UNCHANGED <<risk, feed, direction, env, exchVars, shutdown_requested,
                   order_filled_event, active_close_orders, last_close_orders,
                   last_log_time, last_open_order_time>>

\* graceful_shutdown: set the flag, close the HTTP client session; the one
\* try block is left where a call raises
GracefulClose ==
    /\ pc = "graceful"
    /\ shutdown_requested' = TRUE
    /\ \E ok \in BOOLEAN :
         /\ Api(ok)
         /\ closing' = [closing EXCEPT
                !.client_close = closing.client_close + 1,
                !.close_failed = closing.close_failed \/ ~ok]
         /\ pc' = IF ok THEN "graceful_ws" ELSE "finally"
    /\ UNCHANGED <<risk, feed, direction, exchVars, order_filled_event,
                   active_close_orders, last_close_orders, last_log_time,
                   last_open_order_time, run, tick, pm, po>>

\* graceful_shutdown: disconnect the WebSocket connections
GracefulDisconnect ==
    /\ pc = "graceful_ws"
    /\ \E ok \in BOOLEAN :
         /\ Api(ok)
         /\ closing' = [closing EXCEPT
                !.ws_disconnect = closing.ws_disconnect + 1]
    /\ pc' = "finally"
    /\ UNCHANGED <<risk, feed, direction, exchVars, shutdown_requested,
                   order_filled_event, active_close_orders, last_close_orders,
                   last_log_time, last_open_order_time, run, tick, pm, po>>

ExitStep == Interrupt \/ GracefulClose \/ GracefulDisconnect

SpecExit == Init /\ [][Next \/ ExitStep]_vars

(***************************************************************************)
(* SpecOpen: one call of place_open_order, made on a flat account, against *)
(* an exchange that may reject more submissions than the call retries.     *)
(***************************************************************************)
OpenInit ==
    /\ risk = RiskIdle
    /\ feed = FeedIdle
    /\ direction \in Sides
    /\ env = [faults |-> MaxFaults, rejects |-> MaxRetries + 1]
    /\ orders = [i \in 1..NumSlots |-> NoOrder]
    /\ position = 0
    /\ events = {}
    /\ pc = "pm_start"
    /\ shutdown_requested = FALSE
    /\ order_filled_event \in BOOLEAN
    /\ active_close_orders = 0
    /\ last_close_orders = 0
    /\ last_log_time = 1
    /\ last_open_order_time = 0
    /\ run = [RunIdle EXCEPT !.inventory_strategy = "normal",
                             !.trade_direction = direction]
    /\ tick = TickIdle
    /\ pm = PmIdle
    /\ po = PoIdle
    /\ closing = ClosingIdle

OpenNext ==
    \/ PmStart \/ OpenBook \/ OpenCreate \/ OpenStatus
    \/ ExchStep
    \/ order_update_handler

SpecOpen == OpenInit /\ [][OpenNext]_vars

(***************************************************************************)
(* Properties of the execution loop.                                       *)
(***************************************************************************)
\* the open order _place_and_monitor_open_order has placed and follows
TrackedOpenId ==
    IF pc \in {"open_status", "pm_placed"} THEN po.order_id
    ELSE IF pc \in {"wait_fill", "hr_poll", "hr_cancel", "hr_reread"}
    THEN pm.order_id
    ELSE 0

\* C1: a fatal reconciliation verdict requests the shutdown; once the
\* shutdown is requested no order is submitted any more, whatever the
\* throttle, the inventory tier and the volatility gate answer, and the run
\* task reaches its terminal state
ShutdownIsFinal ==
    /\ [](tick.verdict = "fatal" => shutdown_requested)
    /\ [][shutdown_requested =>
            \A id \in OrderIds :
                orders[id].status = "NONE" => orders'[id].status = "NONE"]_vars
    /\ (shutdown_requested ~> pc = "done")

ShutdownWitness ==
    /\ pc = "done"
    /\ shutdown_requested
    /\ last_open_order_time = 1

\* C2: the status tick ends fatal, and with the shutdown requested, exactly
\* when the active net exposure and minus the inventory differ by more than
\* twice the base quantity
ReconciliationThreshold ==
    (pc = "throttle" /\ tick.verdict # "none") =>
        LET mismatch == Abs(tick.active_net_exposure
                            - (0 - tick.current_inventory))
        IN  /\ (tick.verdict = "fatal") <=> (mismatch > 2 * Qty)
            /\ shutdown_requested <=> (mismatch > 2 * Qty)

ReconciliationWitness ==
    /\ pc = "throttle"
    /\ tick.verdict = "ok"
    /\ Abs(tick.active_net_exposure + tick.current_inventory) = 2 * Qty
    /\ ~shutdown_requested

\* C3: a call of place_open_order in which nothing but maker rejections
\* goes wrong returns ok with the order of submission N+1 when N <= 14
\* submissions were rejected, and returns the error after exactly 15
\* submissions when 15 were
OpenRetryBound ==
    (/\ pc = "pm_placed"
     /\ po.faults = 0
     /\ po.err_msg \in {"none", "rejected"}
     /\ po.status # "none" \/ po.result = "error") =>
        /\ po.submits <= 15
        /\ po.rejected <= 14 =>
              /\ po.result = "ok"
              /\ po.submits = po.rejected + 1
              /\ po.order_id # 0
              /\ orders[po.order_id].kind = "open"
        /\ po.rejected >= 15 =>
              /\ po.result = "error"
              /\ po.err_msg = "rejected"
              /\ po.submits = 15
              /\ po.rejected = 15

OpenRetryWitness ==
    /\ pc = "pm_placed"
    /\ po.faults = 0
    /\ po.result = "ok"
    /\ po.rejected = 14
    /\ po.submits = 15

\* C4 as stated: while an open order is followed, order_filled_event is set
\* only by the FILLED update of that order
FillSignalOnlyForTrackedOrder ==
    [][(TrackedOpenId # 0 /\ ~order_filled_event /\ order_filled_event') =>
          \E e \in events \ events' :
              /\ e.status = "FILLED"
              /\ e.id = TrackedOpenId]_vars

\* C5 as stated: the FILLED update of the open order that is being followed
\* sets order_filled_event when it is delivered, whatever the order's side
FillSignalForTrackedOrder ==
    [][\A e \in events \ events' :
          (e.status = "FILLED" /\ e.contractId = "own"
           /\ e.id = TrackedOpenId) => order_filled_event']_vars

\* C6: after a poll that found the open order FILLED, the close order is
\* post-only, on the side opposite to the side of the filled order, priced
\* from filled price * (1 + take profit) after a buy and * (1 - take profit)
\* after a sell, and has the filled quantity
TakeProfitAfterFill ==
    (pm.branch = "filled"
     /\ pc \in {"close_book", "close_create", "close_status"}) =>
        LET o == orders[pm.order_id]
            buy == o.side = "BUY"
        IN  /\ o.status = "FILLED"
            /\ o.side \in {"BUY", "SELL"}
            /\ pm.close_side = IF buy THEN "sell" ELSE "buy"
            /\ pm.close_num = IF buy
                              THEN o.price * (TakeProfitDen + TakeProfitNum)
                              ELSE o.price * (TakeProfitDen - TakeProfitNum)
            /\ pm.close_qty = o.cum
            /\ po.side = pm.close_side
            /\ po.quantity = o.cum
            /\ (pc = "close_status" /\ po.order_id # 0) =>
                  LET c == orders[po.order_id]
                  IN  /\ c.kind = "close"
                      /\ c.post_only
                      /\ c.side = (IF buy THEN "SELL" ELSE "BUY")
                      /\ c.size = o.cum

TakeProfitWitness ==
    /\ pm.branch = "filled"
    /\ pc = "close_status"
    /\ po.order_id # 0
    /\ orders[pm.order_id].side # Upper(direction)
    /\ orders[po.order_id].side = Upper(direction)

\* C7: after a poll that found the open order OPEN or PARTIALLY_FILLED the
\* cancel is issued before the second read, the close order has exactly the
\* filled quantity of the second read, and a second read of 0 places no
\* close order
CancelThenCloseFilledPart ==
    /\ pc = "hr_reread" => pm.cancel_result # "none"
    /\ pm.branch = "partial" =>
          /\ pc \in {"hr_cancel", "hr_reread", "close_book", "close_create",
                     "close_status", "pm_return"}
          /\ pc \in {"close_book", "close_create", "close_status"} =>
                /\ pm.cancel_result # "none"
                /\ pm.reread
                /\ pm.filled_amount > 0
                /\ pm.close_qty = pm.filled_amount
                /\ po.quantity = pm.filled_amount
                /\ pm.filled_amount <= orders[pm.order_id].cum
                /\ pm.cancel_result = "ok" =>
                      pm.filled_amount = orders[pm.order_id].cum
                /\ (pc = "close_status" /\ po.order_id # 0) =>
                      orders[po.order_id].size = pm.filled_amount
          /\ (pc = "pm_return" /\ pm.reread /\ pm.filled_amount = 0) =>
                /\ po = PoIdle
                /\ orders[pm.order_id].cum = 0
                      \/ pm.cancel_result = "error"

CancelThenCloseWitness ==
    /\ pm.branch = "partial"
    /\ pc = "close_status"
    /\ po.order_id # 0
    /\ pm.filled_amount = 1
    /\ orders[po.order_id].size = 1
    /\ orders[pm.order_id].status = "CANCELED"

(***************************************************************************)
(* Properties of the inventory control of the loop.                        *)
(***************************************************************************)
\* the steps of _place_and_monitor_open_order up to the placed open order
PlacementPcs ==
    {"pm_start", "open_book", "open_create", "open_status", "pm_placed"}

\* the side that reduces a position of this sign
ReducingSide(inventory) == IF inventory > 0 THEN "sell" ELSE "buy"

\* C11: in a cycle whose inventory sample is in the opposite_only tier the
\* open order is placed in the direction that reduces the position (sell
\* when long, buy when short), whatever the configured direction is, and a
\* cycle without such a direction places nothing.
OppositeOnlyForcesBias ==
    (run.inventory_strategy = "opposite_only" /\ pc \in PlacementPcs) =>
        /\ run.current_inventory # 0
        /\ run.trade_direction = ReducingSide(run.current_inventory)
        /\ pc # "pm_start" => po.side = ReducingSide(run.current_inventory)
        /\ pc = "open_status" =>
              /\ orders[po.order_id].kind = "open"
              /\ orders[po.order_id].side =
                    Upper(ReducingSide(run.current_inventory))

OppositeOnlyWitness ==
    /\ run.inventory_strategy = "opposite_only"
    /\ pc = "open_status"
    /\ orders[po.order_id].kind = "open"
    /\ orders[po.order_id].side # Upper(direction)

\* C12: in the reduce_same_side tier the chosen direction is the reducing
\* direction or the configured one, both can be chosen when the position
\* is past twice the base quantity, and the configured one is chosen when
\* it is not; in the normal tier the configured one is chosen.
ReduceTierChoice ==
    /\ [][(pc = "after_vol" /\ pc' \in {"pm_start", "sleep"}) =>
            /\ run.inventory_strategy = "normal" =>
                  run'.trade_direction = direction
            /\ run.inventory_strategy = "reduce_same_side" =>
                  /\ run'.trade_direction \in
                        {direction, ReducingSide(run.current_inventory)}
                  /\ Abs(run.current_inventory) <= 2 * Qty =>
                        run'.trade_direction = direction]_vars
    /\ [](( /\ pc = "after_vol"
            /\ ~shutdown_requested
            /\ run.inventory_strategy = "reduce_same_side"
            /\ Abs(run.current_inventory) > 2 * Qty) =>
              /\ ENABLED (ChooseDirection /\ run'.trade_direction = direction)
              /\ ENABLED (ChooseDirection /\ run'.trade_direction =
                            ReducingSide(run.current_inventory)))

\* the reduce tier has flipped away from the configured direction
ReduceTierWitness ==
    /\ run.inventory_strategy = "reduce_same_side"
    /\ pc = "open_status"
    /\ orders[po.order_id].kind = "open"
    /\ orders[po.order_id].side # Upper(direction)

\* C13: in a cycle whose inventory sample is in the pause tier the loop
\* goes to sleep without placing an order, and the next cycle starts with
\* no sample, so that it reads the inventory again before it decides.
PauseSkipsCycle ==
    /\ [](run.inventory_strategy = "pause" => pc = "sleep")
    /\ [][run.inventory_strategy = "pause" =>
            /\ \A id \in OrderIds :
                 orders[id].status = "NONE" => orders'[id].status = "NONE"
            /\ pc' # pc =>
                 /\ pc' = "loop_top"
                 /\ run'.inventory_strategy = "none"]_vars
    /\ [](pc \in PlacementPcs =>
            run.inventory_strategy \in
                {"normal", "reduce_same_side", "opposite_only"})

PauseWitness ==
    /\ run.inventory_strategy = "pause"
    /\ pc = "sleep"
    /\ Abs(run.current_inventory) >= 6 * Qty

CancelsBeforeExit ==
    (pc = "done" /\ closing.raised # "KeyboardInterrupt") =>
        \A id \in OrderIds :
            orders[id].status \in ActiveStatuses =>
                id \in closing.cancel_requested

\* C19: on every way out of run() (shutdown requested, KeyboardInterrupt,
\* any other exception, a failure inside graceful_shutdown) closing the
\* HTTP client session and disconnecting the WebSocket connections have
\* both been attempted when run() returns, and the disconnect of the
\* finally block is attempted whether or not its close has failed.
ResourcesClosedOnExit ==
    /\ [](pc = "done" =>
            /\ closing.client_close >= 1
            /\ closing.ws_disconnect >= 1)
    /\ [][ /\ (pc = "finally" /\ pc' # pc) =>
                  /\ pc' = "finally_ws"
                  /\ closing'.client_close = closing.client_close + 1
           /\ (pc = "finally_ws" /\ pc' # pc) =>
                  /\ pc' = "done"
                  /\ closing'.ws_disconnect = closing.ws_disconnect + 1
           /\ (pc' = "done" /\ pc # "done") => pc = "finally_ws"
           /\ (pc \in {"graceful", "graceful_ws"} /\ pc' # pc) =>
                  pc' \in {"graceful_ws", "finally"} ]_vars

\* run() has returned after an exception, the close of graceful_shutdown
\* has failed and skipped its disconnect
ResourcesClosedWitness ==
    /\ pc = "done"
    /\ closing.raised = "Exception"
    /\ closing.close_failed
    /\ closing.client_close = 2
    /\ closing.ws_disconnect = 1

(***************************************************************************)
(* SpecHedge: the loop started on an account past the emergency threshold, *)
(* most of whose position an earlier order already offers, against an      *)
(* exchange that holds one order more.                                     *)
(***************************************************************************)
HedgeAccount == [pos |-> 8 * Qty + 1, resting |-> 7 * Qty + 1]

HedgeInit ==
    /\ risk = RiskIdle
    /\ feed = FeedIdle
    /\ direction \in Sides
    /\ env = [faults |-> 0, rejects |-> MaxRejects]
    /\ position = HedgeAccount.pos
    /\ orders = [i \in 1..(NumSlots + 1) |->
                    IF i = 1
                    THEN [LegacyOrder(HedgeAccount.pos) EXCEPT
                             !.size = HedgeAccount.resting]
                    ELSE NoOrder]
    /\ events = {}
    /\ pc = "loop_top"
    /\ shutdown_requested = FALSE
    /\ order_filled_event = FALSE
    /\ active_close_orders = 0
    /\ last_close_orders = 0
    /\ last_log_time = 0
    /\ last_open_order_time = 0
    /\ run = RunIdle
    /\ tick = TickIdle
    /\ pm = PmIdle
    /\ po = PoIdle
    /\ closing = ClosingIdle

SpecHedge == HedgeInit /\ [][Next]_vars

\* C14: in a cycle in which the emergency check has placed a hedge order no
\* open order is placed, also when the position reported by the exchange
\* changes between the emergency check and the inventory read of the cycle.
NoOpenInHedgeCycle ==
    run.hedged => pc # "open_status"

\* C20: whenever the throttle is evaluated with max_orders or more active
\* orders counted it returns a wait and the cycle goes to sleep without an
\* open order, whatever the earlier counts were, also for a count that is
\* lower than at the evaluation before.
ThrottleWaitsAtMaxOrders ==
    [][(pc = "throttle" /\ pc' # pc /\ active_close_orders >= max_orders)
          => pc' = "sleep"]_vars

(***************************************************************************)
(* Properties of the emergency hedge.                                      *)
(***************************************************************************)
\* the order ids taken by a step
CreatedIds == {id \in OrderIds : orders[id].status = "NONE" /\ orders'[id].status # "NONE"}

RiskInit ==
    /\ MainIdle
    /\ \E b \in 1..MaxBase, p \in -MaxPos..MaxPos, q \in -MaxPos..MaxPos :
        risk = [step |-> "input", base |-> b, p |-> p, q |-> q,
                tier_p |-> "none", tier_q |-> "none",
                bias |-> "none", after |-> p]

RiskClassify ==
    /\ risk.step = "input"
    /\ UNCHANGED mainVars
    /\ risk' = [risk EXCEPT !.step = "classified",
                            !.tier_p = classify(risk.base, risk.p),
                            !.tier_q = classify(risk.base, risk.q)]

RiskBias ==
    /\ risk.step = "classified"
    /\ UNCHANGED mainVars
    /\ LET bias == get_inventory_direction_bias(risk.base, risk.p)
       IN  risk' = [risk EXCEPT
                !.step = "biased",
                !.bias = bias,
                !.after = IF bias = "none" THEN risk.p
                          ELSE position_after_fill(risk.p, bias, risk.base)]

RiskNext == RiskClassify \/ RiskBias

SpecRisk == RiskInit /\ [][RiskNext]_vars

\* C8: the tier never gets less severe as |p| grows, and depends on |p| only
TierMonotoneSymmetric ==
    risk.step # "input" =>
        /\ Abs(risk.p) <= Abs(risk.q)
              => Severity(risk.tier_p) <= Severity(risk.tier_q)
        /\ risk.p = -risk.q => risk.tier_p = risk.tier_q

TierMonotoneWitness ==
    /\ risk.step = "classified"
    /\ risk.p < 0
    /\ risk.tier_p = "reduce_same_side"
    /\ risk.tier_q = "emergency"

\* C9 as stated: a position exactly at a threshold is in the tier below it
BoundaryTierBelow ==
    risk.step # "input" =>
        /\ Abs(risk.p) = 2 * risk.base => risk.tier_p = "normal"
        /\ Abs(risk.p) = 4 * risk.base => risk.tier_p = "reduce_same_side"
        /\ Abs(risk.p) = 6 * risk.base => risk.tier_p = "opposite_only"
        /\ Abs(risk.p) = 8 * risk.base => risk.tier_p = "pause"

\* C9 amended: a position exactly at the 2x, 4x or 6x threshold is in the
\* tier that starts there; exactly at 8x it is PAUSE, not emergency
BoundaryTierAbove ==
    risk.step # "input" =>
        /\ Abs(risk.p) = 2 * risk.base => risk.tier_p = "reduce_same_side"
        /\ Abs(risk.p) = 4 * risk.base => risk.tier_p = "opposite_only"
        /\ Abs(risk.p) = 6 * risk.base => risk.tier_p = "pause"
        /\ Abs(risk.p) = 8 * risk.base => risk.tier_p = "pause"

BoundaryTierWitness ==
    /\ risk.step = "classified"
    /\ risk.p = -(4 * risk.base)
    /\ risk.tier_p = "opposite_only"

\* C10: no bias up to 2 x base, SELL above, BUY below, and a trade of the
\* base quantity in the bias direction strictly reduces |p|
BiasReducesPosition ==
    risk.step = "biased" =>
        /\ Abs(risk.p) <= 2 * risk.base => risk.bias = "none"
        /\ risk.p > 2 * risk.base => risk.bias = "sell"
        /\ risk.p < -(2 * risk.base) => risk.bias = "buy"
        /\ risk.bias # "none" => Abs(risk.after) < Abs(risk.p)

BiasWitness ==
    /\ risk.step = "biased"
    /\ risk.bias = "buy"
    /\ risk.p = -(2 * risk.base) - 1
    /\ risk.after = risk.p + risk.base

(***************************************************************************)
(* SpecHedgePrice: place_hedge_order's price on books of one to three      *)
(* levels a side, for both directions, aggressive or not.                  *)
(***************************************************************************)
MaxLevels == 3
BestBids == {98, 100}
Spreads == {StepSize, 2 * StepSize}

\* a book of nb bid and na ask levels, one step apart
LevelBook(best_bid, spread, nb, na) ==
    [bids |-> [i \in 1..nb |-> best_bid - StepSize * (i - 1)],
     asks |-> [i \in 1..na |-> best_bid + spread + StepSize * (i - 1)]]

HedgeBooks ==
    {LevelBook(bb, s, nb, na) :
        bb \in BestBids, s \in Spreads, nb \in 1..MaxLevels, na \in 1..MaxLevels}

PriceInit ==
    /\ MainIdle
    /\ \E book \in HedgeBooks, dir \in Sides, aggressive \in BOOLEAN :
         risk = [step |-> "book", book |-> book, dir |-> dir,
                 aggressive |-> aggressive, hedge_price |-> 0]

PriceHedge ==
    /\ risk.step = "book"
    /\ UNCHANGED mainVars
    /\ risk' = [risk EXCEPT
           !.step = "priced",
           !.hedge_price = hedge_price(risk.book, risk.dir, risk.aggressive)]

SpecHedgePrice == PriceInit /\ [][PriceHedge]_vars

\* C16: a hedge order is priced as a maker order on the book it was
\* computed from: a sell above the best bid and a buy below the best ask,
\* aggressive or not, for books of one, two and three levels.
HedgePricedAsMaker ==
    risk.step = "priced" =>
        IF risk.dir = "sell"
        THEN risk.hedge_price > risk.book.bids[1]
        ELSE risk.hedge_price < risk.book.asks[1]


(***************************************************************************)
(* Python float: IEEE-754 binary64, round to nearest, ties to even.        *)
(* Magnitudes are bit sequences, least significant bit first, because a    *)
(* 53-bit significand does not fit the integers of the checker.            *)
(***************************************************************************)
MantissaBits == 53

RECURSIVE BigFromNat(_)
BigFromNat(n) == IF n = 0 THEN <<>> ELSE <<n % 2>> \o BigFromNat(n \div 2)

BigBit(a, i) == IF i >= 1 /\ i <= Len(a) THEN a[i] ELSE 0

\* the operators below halve their range at each call, so that the depth
\* of a call grows with the logarithm of the length only

\* the highest bit set in a[lo..hi], 0 when there is none
RECURSIVE HighBit(_, _, _)
HighBit(a, lo, hi) ==
    IF lo > hi THEN 0
    ELSE IF lo = hi THEN (IF a[lo] = 1 THEN lo ELSE 0)
    ELSE LET mid == (lo + hi) \div 2
             up == HighBit(a, mid + 1, hi)
         IN  IF up # 0 THEN up ELSE HighBit(a, lo, mid)

BigNorm(a) == SubSeq(a, 1, HighBit(a, 1, Len(a)))

\* -1, 0 or 1, comparing bits lo..hi
RECURSIVE BigCmpRange(_, _, _, _)
BigCmpRange(a, b, lo, hi) ==
    IF lo > hi THEN 0
    ELSE IF lo = hi THEN BigBit(a, lo) - BigBit(b, lo)
    ELSE LET mid == (lo + hi) \div 2
             up == BigCmpRange(a, b, mid + 1, hi)
         IN  IF up # 0 THEN up ELSE BigCmpRange(a, b, lo, mid)

BigCmp(a, b) ==
    BigCmpRange(a, b, 1, IF Len(a) > Len(b) THEN Len(a) ELSE Len(b))

\* bits lo..hi of a + b + carry, and the carry out
RECURSIVE BigAddRange(_, _, _, _, _)
BigAddRange(a, b, lo, hi, carry) ==
    IF lo > hi THEN [s |-> <<>>, c |-> carry]
    ELSE IF lo = hi
    THEN LET t == BigBit(a, lo) + BigBit(b, lo) + carry
         IN  [s |-> <<t % 2>>, c |-> t \div 2]
    ELSE LET mid == (lo + hi) \div 2
             low == BigAddRange(a, b, lo, mid, carry)
             high == IF low.c = 1 THEN BigAddRange(a, b, mid + 1, hi, 1)
                     ELSE BigAddRange(a, b, mid + 1, hi, 0)
         IN  [s |-> low.s \o high.s, c |-> high.c]

BigAdd(a, b) ==
    LET r == BigAddRange(a, b, 1,
                         IF Len(a) > Len(b) THEN Len(a) ELSE Len(b), 0)
    IN  BigNorm(r.s \o <<r.c>>)

\* bits lo..hi of a - b - borrow, and the borrow out
RECURSIVE BigSubRange(_, _, _, _, _)
BigSubRange(a, b, lo, hi, borrow) ==
    IF lo > hi THEN [s |-> <<>>, c |-> borrow]
    ELSE IF lo = hi
    THEN LET t == BigBit(a, lo) - BigBit(b, lo) - borrow
         IN  [s |-> <<t % 2>>, c |-> IF t < 0 THEN 1 ELSE 0]
    ELSE LET mid == (lo + hi) \div 2
             low == BigSubRange(a, b, lo, mid, borrow)
             high == IF low.c = 1 THEN BigSubRange(a, b, mid + 1, hi, 1)
                     ELSE BigSubRange(a, b, mid + 1, hi, 0)
         IN  [s |-> low.s \o high.s, c |-> high.c]

\* a - b for a >= b
BigSub(a, b) == BigNorm(BigSubRange(a, b, 1, Len(a), 0).s)

BigShl(a, k) == IF a = <<>> THEN a ELSE [i \in 1..k |-> 0] \o a

BigShr(a, k) == IF k >= Len(a) THEN <<>> ELSE SubSeq(a, k + 1, Len(a))

\* the low k bits
BigLow(a, k) == BigNorm(SubSeq(a, 1, IF k < Len(a) THEN k ELSE Len(a)))

\* long division over bits hi down to lo of a, entered with remainder r:
\* the quotient bits lo..hi and the remainder left
RECURSIVE BigDivRange(_, _, _, _, _)
BigDivRange(a, b, hi, lo, r) ==
    IF hi < lo THEN [q |-> <<>>, r |-> r]
    ELSE IF hi = lo
    THEN LET r1 == IF r = <<>> /\ a[hi] = 0 THEN <<>> ELSE <<a[hi]>> \o r
         IN  IF BigCmp(r1, b) >= 0
             THEN [q |-> <<1>>, r |-> BigSub(r1, b)]
             ELSE [q |-> <<0>>, r |-> r1]
    ELSE LET mid == (lo + hi) \div 2
             high == BigDivRange(a, b, hi, mid + 1, r)
             low == IF high.r = <<>> THEN BigDivRange(a, b, mid, lo, <<>>)
                    ELSE BigDivRange(a, b, mid, lo, high.r)
         IN  [q |-> low.q \o high.q, r |-> low.r]

\* the quotient without its leading zeros
BigQuotient(d) == [q |-> BigNorm(d.q), r |-> d.r]

BigDivMod(a, b) == BigQuotient(BigDivRange(a, b, Len(a), 1, <<>>))

\* round half to even: q loses its low j bits; inexact says that the
\* division left a remainder
RoundsUp(q, j, inexact) ==
    LET c == BigCmp(BigLow(q, j), BigShl(<<1>>, j - 1))
    IN  \/ c > 0
        \/ c = 0 /\ (inexact \/ q[j + 1] = 1)

\* a carry out of the rounding makes the significand one bit longer
FloatPack(m, e) ==
    IF Len(m) > MantissaBits THEN [m |-> BigShr(m, 1), e |-> e + 1]
    ELSE [m |-> m, e |-> e]

FloatRoundAt(q, j, inexact, e) ==
    FloatPack(IF RoundsUp(q, j, inexact) THEN BigAdd(BigShr(q, j), <<1>>)
              ELSE BigShr(q, j),
              e + j)

\* qr.q has more than MantissaBits bits
FloatRound(qr, e) ==
    FloatRoundAt(qr.q, Len(qr.q) - MantissaBits, qr.r # <<>>, e)

\* the float nearest to n / d * 2^e for n > 0: significand and exponent
FloatOfRatio(n, d, e) ==
    LET k == MantissaBits + 1 - Len(n) + Len(d)
    IN  FloatRound(BigDivMod(IF k >= 0 THEN BigShl(n, k) ELSE n,
                             IF k >= 0 THEN d ELSE BigShl(d, -k)),
                   e - k)

FloatZero == [m |-> <<>>, e |-> 0]

\* float(str) of a decimal with one digit after the point, given in tenths
FloatOfTenths(t) ==
    IF t = 0 THEN FloatZero ELSE FloatOfRatio(BigFromNat(t), BigFromNat(10), 0)

FloatOfNat(n) ==
    IF n = 0 THEN FloatZero ELSE FloatOfRatio(BigFromNat(n), <<1>>, 0)

\* the significands of x and y on their common exponent
Aligned(x, y) ==
    LET e == IF x.e < y.e THEN x.e ELSE y.e
    IN  [x |-> BigShl(x.m, x.e - e), y |-> BigShl(y.m, y.e - e), e |-> e]

FloatCmp(x, y) ==
    IF x.m = <<>> \/ y.m = <<>>
    THEN (IF x.m # <<>> THEN 1 ELSE IF y.m # <<>> THEN -1 ELSE 0)
    ELSE LET a == Aligned(x, y) IN BigCmp(a.x, a.y)

\* abs(x - y)
FloatAbsDiff(x, y) ==
    IF FloatCmp(x, y) = 0 THEN FloatZero
    ELSE IF x.m = <<>> THEN y
    ELSE IF y.m = <<>> THEN x
    ELSE LET a == Aligned(x, y)
             d == IF BigCmp(a.x, a.y) > 0 THEN BigSub(a.x, a.y)
                  ELSE BigSub(a.y, a.x)
         IN  FloatOfRatio(d, <<1>>, a.e)

\* x / y for y > 0
FloatDiv(x, y) ==
    IF x.m = <<>> THEN FloatZero ELSE FloatOfRatio(x.m, y.m, x.e - y.e)

\* x * n for a natural n > 0
FloatTimes(x, n) ==
    IF x.m = <<>> THEN FloatZero
    ELSE LET nb == BigFromNat(n)
             RECURSIVE Prod(_)
             Prod(i) == IF i > Len(nb) THEN <<>>
                        ELSE IF nb[i] = 1
                             THEN BigAdd(BigShl(x.m, i - 1), Prod(i + 1))
                             ELSE Prod(i + 1)
         IN  FloatOfRatio(Prod(1), <<1>>, x.e)


(***************************************************************************)
(* The volatility gate: check_btc_volatility_safe and its 24-hour          *)
(* fallback.  Prices are decimals with one digit after the point, kept in  *)
(* tenths; timestamps are whole seconds; priceChangePercent is a decimal   *)
(* with four digits after the point, kept in units of 0.0001.              *)
(***************************************************************************)
AmplitudeTenths == 1050     \* max_amplitude_usdt = 105.0

SeqMax(s) == CHOOSE x \in {s[i] : i \in DOMAIN s} : \A j \in DOMAIN s : s[j] <= x

SeqMin(s) == CHOOSE x \in {s[i] : i \in DOMAIN s} : \A j \in DOMAIN s : s[j] >= x

\* a gate that looks at the whole buffer
recent_prices_whole_buffer(history, current_time) == history

\* the records of the last minute, in buffer order
recent_prices(history, current_time) ==
    SelectSeq(history, LAMBDA record : record.timestamp > current_time - 60)

\* a fallback that compares the signed change
check_volatility_fallback_signed(quote) ==
    IF quote.ok
    THEN \/ quote.priceChangePercent <= 0
         \/ ~(FloatCmp(FloatOfRatio(BigFromNat(quote.priceChangePercent),
                                    BigFromNat(10000), 0),
                       FloatOfRatio(BigFromNat(3), BigFromNat(100), 0)) > 0)
    ELSE TRUE

\* mutant: a fallback that stops trading when it has no quote
check_volatility_fallback_closed(quote) ==
    IF quote.ok
    THEN LET price_change_percent ==
                 IF quote.priceChangePercent = 0 THEN FloatZero
                 ELSE FloatOfRatio(BigFromNat(Abs(quote.priceChangePercent)),
                                   BigFromNat(10000), 0)
         IN  ~(FloatCmp(price_change_percent,
                        FloatOfRatio(BigFromNat(3), BigFromNat(100), 0)) > 0)
    ELSE FALSE

\* TRUE allows trading.  quote.ok: the 24-hour quote came back with code
\* SUCCESS and a non-empty data list
check_volatility_fallback(quote) ==
    IF quote.ok
    THEN LET price_change_percent ==
                 IF quote.priceChangePercent = 0 THEN FloatZero
                 ELSE FloatOfRatio(BigFromNat(Abs(quote.priceChangePercent)),
                                   BigFromNat(10000), 0)
         IN  ~(FloatCmp(price_change_percent,
                        FloatOfRatio(BigFromNat(3), BigFromNat(100), 0)) > 0)
    ELSE TRUE

\* the realtime verdict on the prices (tenths) of the last minute
volatility_high(prices, max_amplitude) ==
    LET high_price == FloatOfTenths(SeqMax(prices))
        low_price == FloatOfTenths(SeqMin(prices))
        latest_price == FloatOfTenths(prices[Len(prices)])
        amplitude_1m == FloatAbsDiff(high_price, low_price)
        price_change_1m == FloatTimes(FloatDiv(amplitude_1m, latest_price), 100)
    IN  \/ FloatCmp(amplitude_1m, FloatOfTenths(max_amplitude)) > 0
        \/ FloatCmp(price_change_1m, FloatOfRatio(<<1>>, <<0, 1>>, 0)) > 0

\* safe: the value returned; fallback: _check_volatility_fallback was called
check_btc_volatility_safe(history, current_time, max_amplitude, quote) ==
    IF history = <<>>
    THEN [safe |-> check_volatility_fallback(quote), fallback |-> TRUE]
    ELSE LET recent == recent_prices(history, current_time)
         IN  IF Len(recent) < 2
             THEN [safe |-> check_volatility_fallback(quote),
                   fallback |-> TRUE]
             ELSE [safe |-> ~volatility_high(
                                [i \in DOMAIN recent |-> recent[i].price],
                                max_amplitude),
                   fallback |-> FALSE]

(***************************************************************************)
(* SpecGate: the gate applied to a buffer and to the same buffer without   *)
(* its records older than a minute.                                        *)
(***************************************************************************)
MaxRecent == 3
GateNow == 300
OldPrice == 100000

\* prices around the 0.5% threshold, and around the 105.0 threshold
PriceGroups == {{200000, 201000, 200393, 201400}, {300000, 301050, 301051}}

\* the handler records a price only when it differs from the last record
RecentParts ==
    UNION {{[i \in 1..n |-> [price |-> f[i], timestamp |-> GateNow - 60 + i]] :
               f \in {g \in [1..n -> G] : \A i \in 1..(n - 1) : g[i] # g[i + 1]}} :
           n \in 0..MaxRecent, G \in PriceGroups}

OlderParts == {<<>>, <<[price |-> OldPrice, timestamp |-> GateNow - 60]>>}

NoQuote == [ok |-> FALSE, priceChangePercent |-> 0]

Quotes ==
    {NoQuote} \cup {[ok |-> TRUE, priceChangePercent |-> n] :
                       n \in {-301, -300, 0, 300, 301}}

\* the quote is fetched on the fallback path only
GateInit ==
    /\ risk = RiskIdle
    /\ BotIdle
    /\ \E older \in OlderParts, recent \in RecentParts :
         \E quote \in IF Len(recent) < 2 THEN Quotes ELSE {NoQuote} :
            feed = [step |-> "input", older |-> older, recent |-> recent,
                    quote |-> quote, current_time |-> GateNow,
                    with_older |-> [safe |-> TRUE, fallback |-> FALSE],
                    recent_only |-> [safe |-> TRUE, fallback |-> FALSE]]

GateCheck ==
    /\ feed.step = "input"
    /\ feed' = [feed EXCEPT
           !.step = "checked",
           !.with_older = check_btc_volatility_safe(
               feed.older \o feed.recent, feed.current_time,
               AmplitudeTenths, feed.quote),
           !.recent_only = check_btc_volatility_safe(
               feed.recent, feed.current_time, AmplitudeTenths, feed.quote)]
    /\ UNCHANGED <<risk, direction, env, exchVars, botVars>>

SpecGate == GateInit /\ [][GateCheck]_vars

\* C22: two buffers that agree on the records of the last 60 seconds and
\* differ in older ones get the same verdict by the same path, and with
\* fewer than two records in the last 60 seconds (an empty buffer
\* included) the 24-hour fallback is taken.
VerdictFromLastMinute ==
    feed.step = "checked" =>
        /\ feed.with_older = feed.recent_only
        /\ (Len(feed.recent) < 2 =>
               feed.with_older.fallback /\ feed.recent_only.fallback)

\* an older record far from two calm recent ones, and a safe verdict
VerdictFromLastMinuteWitness ==
    /\ feed.step = "checked"
    /\ feed.older # <<>>
    /\ Len(feed.recent) >= 2
    /\ feed.with_older.safe
    /\ ~feed.with_older.fallback

\* max - min > maxAmplitude or (max - min) / latest > 0.5%, exactly
ExactlyVolatile(prices) ==
    \/ SeqMax(prices) - SeqMin(prices) > AmplitudeTenths
    \/ (SeqMax(prices) - SeqMin(prices)) * 1000 > 5 * prices[Len(prices)]

\* C23: with at least two records in the last 60 seconds the gate reports
\* unsafe exactly when the amplitude exceeds maxAmplitude or the amplitude
\* over the latest price exceeds 0.5%; a value at a threshold is safe.
UnsafeExactlyAboveThreshold ==
    (feed.step = "checked" /\ Len(feed.recent) >= 2) =>
        (~feed.recent_only.safe <=>
            ExactlyVolatile([i \in DOMAIN feed.recent |-> feed.recent[i].price]))

\* C24: on the fallback path with a fetched quote the gate rejects exactly
\* when the absolute 24-hour change exceeds 3% (300 units of 0.0001).
FallbackRejectsAboveThreePercent ==
    (feed.step = "checked" /\ feed.recent_only.fallback /\ feed.quote.ok) =>
        (~feed.recent_only.safe <=> Abs(feed.quote.priceChangePercent) > 300)

\* a fall of 3.01% in 24 hours rejected
FallbackRejectsWitness ==
    /\ feed.step = "checked"
    /\ feed.recent_only.fallback
    /\ feed.quote.ok
    /\ feed.quote.priceChangePercent = -301
    /\ ~feed.recent_only.safe

(***************************************************************************)
(* SpecFeed: the ticker subscription of run() delivering lastPrice         *)
(* messages to btc_price_handler while the loop reads the buffer in        *)
(* check_btc_volatility_safe.  The listener runs beside the loop, so the   *)
(* handler's append and its prune are two steps that a read may separate.  *)
(***************************************************************************)
ClockStep == 150
MaxClock == 450
MaxSamples == 3
FeedPrices == {200000, 201000}

NoEvent == [price |-> 0, time |-> -1]

\* after subscribe_ticker, at time 0, the lock of __init__ not held
FeedInit ==
    /\ risk = RiskIdle
    /\ BotIdle
    /\ feed = [step |-> "live", btc_price_history |-> <<>>, now |-> 0,
               btc_price_lock |-> "free",
               handler |-> [pc |-> "idle", last_price |-> 0,
                            current_time |-> 0],
               handled |-> NoEvent, read |-> "none"]

FeedUnchanged == UNCHANGED <<risk, direction, env, exchVars, botVars>>

\* time.time() moves on
FeedClock ==
    /\ feed.step = "live"
    /\ feed.now + ClockStep <= MaxClock
    /\ feed' = [feed EXCEPT !.now = @ + ClockStep]
    /\ FeedUnchanged

\* btc_price_handler up to its append: a message of contract 10000001
\* with a lastPrice; a price equal to the last record's is not recorded
TickerAppend(last_price) ==
    /\ feed.step = "live"
    /\ feed.handler.pc = "idle"
    /\ Len(feed.btc_price_history) < MaxSamples
    /\ LET history == feed.btc_price_history
       IN  IF history = <<>> \/ history[Len(history)].price # last_price
           THEN feed' = [feed EXCEPT
                    !.btc_price_history =
                        Append(@, [price |-> last_price,
                                   timestamp |-> feed.now]),
                    !.handler = [pc |-> "appended",
                                 last_price |-> last_price,
                                 current_time |-> feed.now]]
           ELSE feed' = [feed EXCEPT
                    !.handled = [price |-> last_price, time |-> feed.now]]
    /\ FeedUnchanged

\* the rest of btc_price_handler: keep the records of the last 5 minutes
TickerPrune ==
    /\ feed.step = "live"
    /\ feed.handler.pc = "appended"
    /\ LET cutoff_time == feed.handler.current_time - 300
       IN  feed' = [feed EXCEPT
               !.btc_price_history =
                   SelectSeq(@, LAMBDA record : record.timestamp > cutoff_time),
               !.handler.pc = "idle",
               !.handled = [price |-> feed.handler.last_price,
                            time |-> feed.handler.current_time]]
    /\ FeedUnchanged

\* check_btc_volatility_safe reads the buffer, taking no lock
GateRead ==
    /\ feed.step = "live"
    /\ feed' = [feed EXCEPT
           !.read = IF feed.handler.pc = "appended"
                    THEN "between_append_and_prune" ELSE "clean"]
    /\ FeedUnchanged

FeedNext ==
    \/ FeedClock
    \/ \E last_price \in FeedPrices : TickerAppend(last_price)
    \/ TickerPrune
    \/ GateRead

SpecFeed == FeedInit /\ [][FeedNext]_vars

\* C21: once a ticker event with a lastPrice has been handled, the newest
\* record of the buffer is the sample of that event, and every record is
\* within 300 seconds of the newest one.
HandledEventIsNewest ==
    (/\ feed.step = "live"
     /\ feed.handler.pc = "idle"
     /\ feed.handled # NoEvent) =>
        LET history == feed.btc_price_history
        IN  /\ history # <<>>
            /\ history[Len(history)] = [price |-> feed.handled.price,
                                        timestamp |-> feed.handled.time]
            /\ \A i \in DOMAIN history :
                   history[Len(history)].timestamp - history[i].timestamp <= 300

\* C25: the handler's append and prune happen with the buffer's lock held,
\* and the loop never reads the buffer between the two.
BufferUnderOneLock ==
    feed.step = "live" =>
        /\ (feed.handler.pc = "appended" => feed.btc_price_lock = "handler")
        /\ feed.read # "between_append_and_prune"

(***************************************************************************)
(* The placement sequence of one cycle: _place_and_monitor_open_order from *)
(* its call in run() to its return.                                        *)
(***************************************************************************)
\* a step of the order-update callback: a message taken off the feed, or
\* the fill event set
CallbackStep ==
    \/ events' # events /\ events' \subseteq events
    \/ order_filled_event' /\ ~order_filled_event

\* C26: a placement sequence starts only in run(), after the volatility
\* gate, when no sequence is in progress and the locals of the previous one
\* are gone; and a step of the order-update callback starts none and moves
\* none.
OneSequenceInFlight ==
    [][/\ (pc' = "pm_start" /\ pc # "pm_start") =>
              (pc = "after_vol" /\ pm = PmIdle /\ po = PoIdle)
       /\ CallbackStep => UNCHANGED <<pc, pm, po, run>>]_vars

\* a second sequence started after a first one returned, an order of the
\* first still resting
OneSequenceWitness ==
    /\ pc = "pm_start"
    /\ last_close_orders >= 1
    /\ \E id \in OrderIds : orders[id].status \in ActiveStatuses

(***************************************************************************)
(* SpecOpenPrice: the order one attempt of place_open_order submits, on    *)
(* books of one to three levels whose prices are multiples of the step.    *)
(***************************************************************************)
OpenPriceInit ==
    /\ MainIdle
    /\ \E book \in HedgeBooks, dir \in Sides :
         risk = [step |-> "book", book |-> book, dir |-> dir,
                 order |-> NoOrder]

\* from the book to create_limit_order
OpenPriceSubmit ==
    /\ risk.step = "book"
    /\ UNCHANGED mainVars
    /\ risk' = [risk EXCEPT
           !.step = "submitted",
           !.order = NewOrder("open", Upper(risk.dir), Qty,
                              open_order_price(risk.book, risk.dir))]

SpecOpenPrice == OpenPriceInit /\ [][OpenPriceSubmit]_vars

VolWaitInit ==
    /\ risk = RiskIdle
    /\ feed = FeedIdle
    /\ direction \in Sides
    /\ env = [faults |-> MaxFaults, rejects |-> 0]
    /\ orders = [i \in 1..NumSlots |-> NoOrder]
    /\ position = 0
    /\ events = {}
    /\ pc = "vol_check"
    /\ shutdown_requested \in BOOLEAN
    /\ order_filled_event = FALSE
    /\ active_close_orders = 0
    /\ last_close_orders = 0
    /\ last_log_time = 1
    /\ last_open_order_time = 0
    /\ run = [RunIdle EXCEPT !.inventory_strategy = "normal"]
    /\ tick = TickIdle
    /\ pm = PmIdle
    /\ po = PoIdle
    /\ closing = ClosingIdle

\* for i in range(30): if self.shutdown_requested: break; sleep(1)
VolSlice ==
    /\ pc = "vol_wait"
    /\ IF run.i < VolSlices /\ ~shutdown_requested
       THEN /\ run' = [run EXCEPT !.i = @ + 1]
            /\ pc' = pc
       ELSE /\ pc' = "vol_check"
            /\ run' = run
    /\ UNCHANGED <<risk, feed, direction, closing, env, exchVars,
                   shutdown_requested, order_filled_event,
                   active_close_orders, last_close_orders, last_log_time,
                   last_open_order_time, tick, pm, po>>

VolWaitNext ==
    \/ VolCheck \/ VolSlice \/ ChooseDirection
    \/ Interrupt \/ GracefulClose \/ GracefulDisconnect
    \/ Finally \/ FinallyDisconnect

SpecVolWait == VolWaitInit /\ [][VolWaitNext]_vars

\* the flag is set, or an exception has left the loop
ShutdownRequested == shutdown_requested \/ closing.raised # "none"

WaitEndsInStatusPoll ==
    /\ \A id \in 1..NumSlots :
          (pc = "wait_fill" /\ pm.order_id = id)
              ~> (pc = "hr_poll" /\ pm.order_id = id)
    /\ [][(pc = "wait_fill" /\ pc' # pc) =>
              (pc' = "hr_poll" /\ pm' = pm)]_vars
    /\ [][(/\ pc' \in {"hr_cancel", "close_book"}
           /\ pc' # pc
           /\ pc \notin {"close_book", "close_create", "close_status"}) =>
              (pc \in {"hr_poll", "hr_reread"} /\ env' = env)]_vars

\* the poll reached after a wait that the fill signal did not end
WaitEndsInStatusPollWitness ==
    /\ pc = "hr_poll"
    /\ pm.status # "FILLED"
    /\ ~order_filled_event
    /\ orders[pm.order_id].status = "OPEN"

\* a step of the run task in which a read of the position failed
FailedPositionRead ==
    /\ pc \in {"emergency", "tick_inventory", "inventory"}
    /\ pc' # pc
    /\ env'.faults < env.faults

\* C30: a failed read of the position ends the operation that needed it
\* for this cycle: the cycle classifies no tier and goes to no placement,
\* the emergency check starts no hedge, and the status tick requests no
\* shutdown.
FailedPositionReadAborts ==
    [][FailedPositionRead =>
          /\ pc = "inventory" =>
                (run'.inventory_strategy = "none" /\ pc' # "vol_check")
          /\ pc = "emergency" => pc' # "hedge_book"
          /\ pc = "tick_inventory" =>
                (shutdown_requested' = shutdown_requested)]_vars

(***************************************************************************)
(* The order of the steps of one cycle of run().                           *)
(***************************************************************************)
\* C31: in every cycle the reconciliation check runs before the emergency
\* hedge step, so a cycle whose reconciliation check flags a fatal mismatch
\* has submitted no hedge order.
NoHedgeInFatalCycle ==
    tick.verdict = "fatal" => ~run.hedged

\* C32: the inventory sample that classifies the tier and selects the
\* direction of an open order is read after the volatility gate last
\* reported safe in the cycle: the loop holds no sample while it waits on
\* the gate, so no direction is chosen from a position read before a wait.
SampleReadAfterGate ==
    pc = "vol_wait" => run.inventory_strategy = "none"

(***************************************************************************)
(* SpecPlace: one call of place_open_order, or one call of                 *)
(* place_close_order made for a filled open order, against an exchange     *)
(* that may reject every submission and fail every request.                *)
(***************************************************************************)
PlaceCalls == {"place_open_order", "place_close_order"}

\* where the call returns to
ReturnPc(call) == IF call = "place_open_order" THEN "pm_placed" ELSE "pm_return"

\* the open order the close order is placed for
FilledOpenOrder(dir) ==
    [NewOrder("open", Upper(dir), Qty,
              open_order_price(CHOOSE book \in Books : TRUE, dir))
        EXCEPT !.cum = Qty, !.status = "FILLED"]

PlaceInit ==
    /\ risk = RiskIdle
    /\ feed = FeedIdle
    /\ direction \in Sides
    /\ env = [faults |-> MaxRetries + 1, rejects |-> MaxRetries + 1]
    /\ events = {}
    /\ shutdown_requested = FALSE
    /\ order_filled_event = FALSE
    /\ active_close_orders = 0
    /\ last_close_orders = 0
    /\ last_log_time = 1
    /\ run = [RunIdle EXCEPT !.inventory_strategy = "normal",
                             !.trade_direction = direction]
    /\ tick = TickIdle
    /\ closing = ClosingIdle
    /\ \E call \in PlaceCalls :
         IF call = "place_open_order"
         THEN /\ pc = "pm_start"
              /\ orders = [i \in 1..NumSlots |-> NoOrder]
              /\ position = 0
              /\ last_open_order_time = 0
              /\ pm = PmIdle
              /\ po = PoIdle
         ELSE LET o == FilledOpenOrder(direction)
                  tp == take_profit_order(direction, o.price, direction)
              IN  /\ pc = "close_book"
                  /\ orders = [i \in 1..NumSlots |->
                                  IF i = 1 THEN o ELSE NoOrder]
                  /\ position = position_after_fill(0, direction, Qty)
                  /\ last_open_order_time = 1
                  /\ pm = [PmIdle EXCEPT !.order_id = 1, !.status = "FILLED",
                                         !.branch = "filled",
                                         !.close_side = tp.side,
                                         !.close_num = tp.num,
                                         !.close_qty = Qty]
                  /\ po = [PoIdle EXCEPT !.side = tp.side, !.quantity = Qty]

PlaceStep ==
    \/ PmStart \/ OpenBook \/ OpenCreate \/ OpenStatus
    \/ CloseBook \/ CloseCreate \/ CloseStatus

PlaceNext == PlaceStep \/ ExchAccept \/ ExchReject \/ ExchFill

SpecPlace == PlaceInit /\ [][PlaceNext]_vars

\* the call is scheduled as long as it can take a step
FairSpecPlace == SpecPlace /\ WF_vars(PlaceStep)

PlaceReturned == pc \in {ReturnPc(call) : call \in PlaceCalls}

\* C33: place_open_order and place_close_order make at most 15 submissions
\* a call, maker rejections and raised exceptions counted on the one
\* attempt counter, return whatever the exchange answers, and return
\* either ok or error.
PlaceTerminates ==
    /\ [](po.submits <= MaxRetries)
    /\ [](po.rejected + po.faults <= MaxRetries)
    /\ [](PlaceReturned => po.result \in {"ok", "error"})
    /\ <>PlaceReturned

\* place_close_order gives up after a mix of rejections and exceptions
PlaceTerminatesWitness ==
    /\ pc = "pm_return"
    /\ po.result = "error"
    /\ po.rejected >= 2
    /\ po.faults >= 2
    /\ po.rejected + po.faults = MaxRetries
    /\ po.submits = po.rejected

\* C34: when place_open_order returns an error, every order the call
\* submitted was seen CANCELED: no order that may still be live on the
\* exchange is left behind without being returned to the caller.
ErrorLeavesNoOrder ==
    (pc = "pm_placed" /\ po.result = "error") =>
        \A id \in OrderIds :
            orders[id].kind = "open" => orders[id].status = "CANCELED"

\* the open orders of the loop that are live on the exchange
LiveOpenOrders ==
    {id \in OrderIds : orders[id].kind = "open"
                       /\ orders[id].status \in ActiveStatuses}

\* C35: when a new open order is submitted every open order of an earlier
\* cycle has been seen FILLED or CANCELED, so at most one open order of the
\* loop is live on the exchange at any time, also when a cancel request
\* fails or a status read returns nothing.
OneLiveOpenOrder == Cardinality(LiveOpenOrders) <= 1

(***************************************************************************)
(* SpecHedgeLoop: the loop configured to buy, on the account of SpecHedge,  *)
(* against an exchange that answers every request and holds three orders   *)
(* more.                                                                   *)
(***************************************************************************)
HedgeLoopInit ==
    /\ risk = RiskIdle
    /\ feed = FeedIdle
    /\ direction = "buy"
    /\ env = [faults |-> 0, rejects |-> MaxRejects]
    /\ position = HedgeAccount.pos
    /\ orders = [i \in 1..(NumSlots + 2) |->
                    IF i = 1
                    THEN [LegacyOrder(HedgeAccount.pos) EXCEPT
                             !.size = HedgeAccount.resting]
                    ELSE NoOrder]
    /\ events = {}
    /\ pc = "loop_top"
    /\ shutdown_requested = FALSE
    /\ order_filled_event = FALSE
    /\ active_close_orders = 0
    /\ last_close_orders = 0
    /\ last_log_time = 0
    /\ last_open_order_time = 0
    /\ run = RunIdle
    /\ tick = TickIdle
    /\ pm = PmIdle
    /\ po = PoIdle
    /\ closing = ClosingIdle

SpecHedgeLoop == HedgeLoopInit /\ [][Next]_vars

\* the hedge orders accepted and neither filled nor cancelled
OutstandingHedges ==
    {id \in OrderIds : orders[id].kind = "hedge"
                       /\ orders[id].status \in {"OPEN", "PARTIALLY_FILLED"}}

RECURSIVE SumHedges(_)
SumHedges(ids) ==
    IF ids = {} THEN 0
    ELSE LET id == CHOOSE x \in ids : TRUE
         IN  orders[id].size + SumHedges(ids \ {id})

\* C36: the emergency hedge orders outstanding never add up to more than
\* |net position|: while the position stays above 8 times the base quantity
\* the emergency step adds no batch beyond what flattens the position.
HedgesWithinPosition ==
    Abs(position) > 8 * Qty => SumHedges(OutstandingHedges) <= Abs(position)

\* the net exposure of the orders ids as the status tick sums it
NetExposure(ids) == SumSizes(ids, "BUY", 0) - SumSizes(ids, "SELL", 0)

\* the status tick has just summed the books as they are: one hedge batch
\* rests unfilled, and without it the orders offset the position exactly
TickAfterOneHedge ==
    /\ pc = "throttle"
    /\ tick.verdict # "none"
    /\ Cardinality(OutstandingHedges) = 1
    /\ \A id \in OrderIds : orders[id].kind = "hedge" =>
          orders[id].status = "OPEN" /\ orders[id].cum = 0
    /\ NetExposure(ActiveIds \ OutstandingHedges) = -position
    /\ tick.active_net_exposure = NetExposure(ActiveIds)
    /\ tick.current_inventory = position

\* C37: when the orders offset the position exactly before an emergency
\* hedge, the reconciliation tick that follows an accepted and unfilled
\* hedge batch finds the mismatch within twice the base quantity and does
\* not request the shutdown.
HedgeWithinTolerance ==
    TickAfterOneHedge => tick.verdict = "ok" /\ ~shutdown_requested

(***************************************************************************)
(* The direction of the open order against the inventory sample.           *)
(***************************************************************************)
\* the direction grows a position of this sign
Increases(dir, inventory) ==
    \/ dir = "buy" /\ inventory > 0
    \/ dir = "sell" /\ inventory < 0

\* C38: an open order that increases |net position| (a buy while long, a
\* sell while short) is submitted only in a cycle whose inventory sample p
\* has |p| < 4 times the base quantity; with |p| >= 4 times the base
\* quantity the cycle places an order that reduces |p|, or no open order.
IncreaseOnlyBelowCaution ==
    pc \in PlacementPcs =>
        /\ Increases(run.trade_direction, run.current_inventory) =>
              Abs(run.current_inventory) < 4 * Qty
        /\ Abs(run.current_inventory) >= 4 * Qty =>
              run.trade_direction = ReducingSide(run.current_inventory)
        /\ pc # "pm_start" => po.side = run.trade_direction
        /\ pc = "open_status" =>
              /\ orders[po.order_id].kind = "open"
              /\ orders[po.order_id].side = Upper(run.trade_direction)

\* an open buy submitted on a long position between 2 and 4 times the base
IncreaseBelowCautionWitness ==
    /\ pc = "open_status"
    /\ run.current_inventory > 2 * Qty
    /\ run.current_inventory < 4 * Qty
    /\ orders[po.order_id].kind = "open"
    /\ orders[po.order_id].side = "BUY"

(***************************************************************************)
(* SpecFailOpen: the gate loop of run() polling check_btc_volatility_safe  *)
(* on a price buffer with fewer than two records of the last minute, with  *)
(* every kind of answer get_24_hour_quote may give.                        *)
(***************************************************************************)
\* answers of get_24_hour_quote: an exception, None, a dict without 'data',
\* a code other than SUCCESS, an empty data list, and a list with a ticker
QuoteResponses ==
    {[raised |-> TRUE, present |-> FALSE, has_data |-> FALSE,
      code |-> "NONE", data |-> <<>>],
     [raised |-> FALSE, present |-> FALSE, has_data |-> FALSE,
      code |-> "NONE", data |-> <<>>],
     [raised |-> FALSE, present |-> TRUE, has_data |-> FALSE,
      code |-> "SUCCESS", data |-> <<>>],
     [raised |-> FALSE, present |-> TRUE, has_data |-> TRUE,
      code |-> "SUCCESS", data |-> <<>>]}
    \cup {[raised |-> FALSE, present |-> TRUE, has_data |-> TRUE,
           code |-> code, data |-> <<n>>] :
            code \in {"SUCCESS", "FAILED"}, n \in {-301, 0, 300, 301}}

\* whether the answer passes the tests made before the ticker is read
quote_ok(response) ==
    /\ ~response.raised
    /\ response.present
    /\ response.has_data
    /\ response.code = "SUCCESS"
    /\ Len(response.data) > 0

\* the quote _check_volatility_fallback works on
quote_of(response) ==
    [ok |-> quote_ok(response),
     priceChangePercent |->
         IF quote_ok(response) THEN response.data[1] ELSE 0]

\* buffers with fewer than two records of the last minute
SparseHistories ==
    {older \o recent : older \in OlderParts,
                       recent \in {r \in RecentParts : Len(r) < 2}}

FailOpenInit ==
    /\ risk = RiskIdle
    /\ feed \in [step : {"gate"}, history : SparseHistories,
                 response : QuoteResponses, current_time : {GateNow},
                 verdict : {[safe |-> FALSE, fallback |-> FALSE]}]
    /\ direction \in Sides
    /\ env = [faults |-> 0, rejects |-> 0]
    /\ orders = [i \in 1..NumSlots |-> NoOrder]
    /\ position = 0
    /\ events = {}
    /\ pc = "vol_check"
    /\ shutdown_requested = FALSE
    /\ order_filled_event = FALSE
    /\ active_close_orders = 0
    /\ last_close_orders = 0
    /\ last_log_time = 1
    /\ last_open_order_time = 0
    /\ run = [RunIdle EXCEPT !.inventory_strategy = "normal"]
    /\ tick = TickIdle
    /\ pm = PmIdle
    /\ po = PoIdle
    /\ closing = ClosingIdle

\* while not self.shutdown_requested: is_volatility_safe = await
\* self.check_btc_volatility_safe(); break when safe, else wait
GatePoll ==
    /\ pc = "vol_check"
    /\ feed.step = "gate"
    /\ IF ~gate_loop_continues(shutdown_requested)
       THEN /\ pc' = "after_vol"
            /\ feed' = feed
       ELSE LET verdict == check_btc_volatility_safe(
                    feed.history, feed.current_time, AmplitudeTenths,
                    quote_of(feed.response))
            IN  /\ feed' = [feed EXCEPT !.verdict = verdict]
                /\ pc' = IF verdict.safe THEN "after_vol" ELSE "vol_wait"
    /\ run' = [run EXCEPT !.i = 0]
    /\ UNCHANGED <<risk, direction, closing, env, exchVars,
                   shutdown_requested, order_filled_event,
                   active_close_orders, last_close_orders, last_log_time,
                   last_open_order_time, tick, pm, po>>

FailOpenNext == GatePoll \/ VolWait \/ ChooseDirection \/ PmStart

SpecFailOpen == FailOpenInit /\ [][FailOpenNext]_vars

\* C39: on the fallback path a 24-hour quote that cannot be fetched, is not
\* a success response, is empty, or whose call raises, makes the gate
\* report safe, and the loop goes on to place an order.
GateFailsOpen ==
    [][ /\ (pc = "vol_check" /\ pc' # pc /\ ~quote_ok(feed.response)) =>
              /\ feed'.verdict = [safe |-> TRUE, fallback |-> TRUE]
              /\ pc' = "after_vol"
        /\ (pc = "after_vol" /\ pc' # pc /\ ~quote_ok(feed.response)) =>
              pc' = "pm_start" ]_vars

\* the quote call has raised and the placement is started
GateFailsOpenWitness ==
    /\ pc = "open_book"
    /\ feed.response.raised
    /\ feed.verdict = [safe |-> TRUE, fallback |-> TRUE]
====
